---- MODULE Spec2Model ----
(***************************************************************************)
(* Model of the project-aware partial-compilation pipeline of part-render: *)
(* DependencyResolver (analysis of a fragment, module resolution, import   *)
(* suggestions) and SmartCompiler (import merging and assembly of the      *)
(* source unit handed to the bundler).                                     *)
(*                                                                         *)
(* A fragment is a sequence of statements.  Each statement is given by its *)
(* source text, a sequence of tokens in which " " is white space, and by   *)
(* the syntax tree the TypeScript parser builds for it.  The analyzer      *)
(* walks the tree; the wrapper detection of the assembler searches the     *)
(* text.                                                                   *)
(***************************************************************************)
EXTENDS Naturals, Sequences, FiniteSets, TLC

VARIABLES
  pc,                    \* position of the compile request in SmartCompiler.compile
  code,                  \* options.code: the fragment
  options,               \* mockProps, wrapComponent, additionalImports
  projectFiles,          \* codeContext.projectFiles
  moduleResolutionCache, \* DependencyResolver.moduleResolutionCache
  depContext,            \* result of analyzeDependencies
  suggestedImports,      \* compile's suggestedImports
  fullCode,              \* result of generateFullCode
  installed,             \* the file system: the modules that module resolution finds
  log,                   \* the calls made on the resolver instance, with what they returned
  components,            \* result of ComponentDetector.detectComponents
  codeContext,           \* PartialRenderer.codeContext
  completion,            \* renderPartial's finalCode and suggestions
  result,                \* what the request in progress returned to its caller
  codeSnippets,          \* renderMultiple's argument
  results,               \* renderMultiple's results map
  calls,                 \* the calls in progress on a PartRender instance
  previewServer,         \* PartRender.previewServer
  servers,               \* the LivePreviewServer objects created so far
  completerCache,        \* CodeCompleter.cache
  logs                   \* Executor.logs

vars == <<pc, code, options, projectFiles, moduleResolutionCache,
          depContext, suggestedImports, fullCode,
          installed, log, components, codeContext, completion, result,
          codeSnippets, results, calls, previewServer, servers, completerCache, logs>>

\* The variables that SmartCompiler.compile leaves alone up to its build step.
otherVars == <<installed, log, components, codeContext, completion, result>>

\* The variables of PartialRenderer.renderMultiple, PartRender, CodeCompleter
\* and Executor, which the compiler, the resolver and the detector never touch.
serviceVars == <<codeSnippets, results, calls, previewServer, servers, completerCache, logs>>

\* Bounds of the model.
MaxStmts == 2
MaxAdditional == 1

Undefined == "undefined"

Range(s) == {s[i] : i \in DOMAIN s}

RECURSIVE Flatten(_)
Flatten(ss) == IF ss = <<>> THEN <<>> ELSE Head(ss) \o Flatten(Tail(ss))

RECURSIVE JoinWith(_, _)
JoinWith(ss, sep) ==
  IF ss = <<>> THEN <<>>
  ELSE IF Len(ss) = 1 THEN Head(ss)
  ELSE Head(ss) \o sep \o JoinWith(Tail(ss), sep)

(***************************************************************************)
(* Syntax: what ts.createSourceFile yields for the source text.            *)
(***************************************************************************)
Id(n) == [kind |-> "Identifier", text |-> n, modifiers |-> {}, children |-> <<>>]
Node(k, mods, ch) == [kind |-> k, text |-> "", modifiers |-> mods, children |-> ch]
Leaf(k, t) == [kind |-> k, text |-> t, modifiers |-> {}, children |-> <<>>]

\* A piece of source: its text and its tree.
Src(t, a) == [text |-> t, ast |-> a]
Texts(ps) == [i \in DOMAIN ps |-> ps[i].text]
Asts(ps) == [i \in DOMAIN ps |-> ps[i].ast]

\* Modifier keywords of a declaration prefix: "", "export" or "export default".
PrefixText(prefix) ==
  CASE prefix = "export" -> <<"export", " ">>
    [] prefix = "export default" -> <<"export", " ", "default", " ">>
    [] OTHER -> <<>>
PrefixModifiers(prefix) ==
  CASE prefix = "export" -> {"ExportKeyword"}
    [] prefix = "export default" -> {"ExportKeyword", "DefaultKeyword"}
    [] OTHER -> {}

\* Expressions.
Ref(n) == Src(<<n>>, Id(n))
StringLit(s) == Src(<<"'", s, "'">>, Leaf("StringLiteral", s))
NumberLit(s) == Src(<<s>>, Leaf("NumericLiteral", s))
NullLit == Src(<<"null">>, Leaf("NullKeyword", "null"))
Call(f, args) ==
  Src(f.text \o <<"(">> \o JoinWith(Texts(args), <<",", " ">>) \o <<")">>,
      Node("CallExpression", {}, <<f.ast>> \o Asts(args)))
Member(o, p) ==
  Src(<<o, ".", p>>, Node("PropertyAccessExpression", {}, <<Id(o), Id(p)>>))

JsxElement(tag) ==
  Src(<<"<", tag, " ", "/>">>, Node("JsxSelfClosingElement", {}, <<Id(tag)>>))
ArrowFunction(e) ==
  Src(<<"(", ")", " ", "=>", " ">> \o e.text, Node("ArrowFunction", {}, <<e.ast>>))

\* Parameters.
Param(n) == Src(<<n>>, Node("Parameter", {}, <<Id(n)>>))
DestructuredParam(n) ==
  Src(<<"{", n, "}">>,
      Node("Parameter", {},
           <<Node("ObjectBindingPattern", {}, <<Node("BindingElement", {}, <<Id(n)>>)>>)>>))

\* Statements.
Return(e) == Src(<<"return", " ">> \o e.text \o <<";">>, Node("ReturnStatement", {}, <<e.ast>>))
VarStmt(prefix, kw, n, init) ==
  Src(PrefixText(prefix) \o <<kw, " ", n, " ", "=", " ">> \o init.text \o <<";">>,
      Node("VariableStatement", PrefixModifiers(prefix),
           <<[kind |-> "VariableDeclarationList", text |-> kw, modifiers |-> {},
              children |-> <<Node("VariableDeclaration", {}, <<Id(n), init.ast>>)>>]>>))
DestructuringStmt(kw, n, init) ==
  Src(<<kw, " ", "{", " ", n, " ", "}", " ", "=", " ">> \o init.text \o <<";">>,
      Node("VariableStatement", {},
           <<[kind |-> "VariableDeclarationList", text |-> kw, modifiers |-> {},
              children |->
                <<Node("VariableDeclaration", {},
                       <<Node("ObjectBindingPattern", {}, <<Node("BindingElement", {}, <<Id(n)>>)>>),
                         init.ast>>)>>]>>))
FunctionDecl(prefix, n, params, stmts) ==
  Src(PrefixText(prefix) \o <<"function", " ", n, "(">> \o JoinWith(Texts(params), <<",", " ">>)
        \o <<")", " ", "{", " ">> \o JoinWith(Texts(stmts), <<" ">>) \o <<" ", "}">>,
      Node("FunctionDeclaration", PrefixModifiers(prefix),
           <<Id(n)>> \o Asts(params) \o <<Node("Block", {}, Asts(stmts))>>))
ClassDecl(prefix, n) ==
  Src(PrefixText(prefix) \o <<"class", " ", n, " ", "{", "}">>,
      Node("ClassDeclaration", PrefixModifiers(prefix), <<Id(n)>>))
ClassDeclExtends(prefix, n, base) ==
  Src(PrefixText(prefix) \o <<"class", " ", n, " ", "extends", " ", base, " ", "{", "}">>,
      Node("ClassDeclaration", PrefixModifiers(prefix),
           <<Id(n),
             Node("HeritageClause", {},
                  <<Node("ExpressionWithTypeArguments", {}, <<Id(base)>>)>>)>>))
ExportList(n) ==
  Src(<<"export", " ", "{", " ", n, " ", "}", ";">>,
      Node("ExportDeclaration", {},
           <<Node("NamedExports", {}, <<Node("ExportSpecifier", {}, <<Id(n)>>)>>)>>))
ExportDefaultExpr(n) ==
  Src(<<"export", " ", "default", " ", n, ";">>, Node("ExportAssignment", {}, <<Id(n)>>))

\* import <clause> from '<module>';  A named binding is <<propertyName, name>>
\* with propertyName "" when the binding has no `as`.
NamedBindingText(b) == IF b[1] = "" THEN <<b[2]>> ELSE <<b[1], " ", "as", " ", b[2]>>
NamedBindingAst(b) ==
  Node("ImportSpecifier", {}, IF b[1] = "" THEN <<Id(b[2])>> ELSE <<Id(b[1]), Id(b[2])>>)
ImportDecl(defaultName, namespaceName, named, module) ==
  LET defText == IF defaultName = "" THEN <<>> ELSE <<<<defaultName>>>>
      nsText == IF namespaceName = "" THEN <<>> ELSE <<<<"*", " ", "as", " ", namespaceName>>>>
      namedText ==
        IF named = <<>> THEN <<>>
        ELSE <<<<"{", " ">> \o JoinWith([i \in DOMAIN named |-> NamedBindingText(named[i])], <<",", " ">>)
               \o <<" ", "}">>>>
      clause ==
        (IF defaultName = "" THEN <<>> ELSE <<Id(defaultName)>>)
        \o (IF namespaceName = "" THEN <<>>
            ELSE <<Node("NamespaceImport", {}, <<Id(namespaceName)>>)>>)
        \o (IF named = <<>> THEN <<>>
            ELSE <<Node("NamedImports", {}, [i \in DOMAIN named |-> NamedBindingAst(named[i])])>>)
  IN Src(<<"import", " ">> \o JoinWith(defText \o nsText \o namedText, <<",", " ">>)
           \o <<" ", "from", " ", "'", module, "'", ";">>,
         Node("ImportDeclaration", {},
              <<Node("ImportClause", {}, clause), Leaf("StringLiteral", module)>>))

\* A function declaration whose body is never closed: the parser reports the
\* missing brace and yields the declaration with the body read so far.
UnclosedFunctionDecl(n) ==
  Src(<<"function", " ", n, "(", ")", " ", "{">>,
      Node("FunctionDeclaration", {}, <<Id(n), Node("Block", {}, <<>>)>>))

\* The parsed fragment and its text.
SourceFile(stmts) == Node("SourceFile", {}, Asts(stmts))
SourceText(stmts) == JoinWith(Texts(stmts), <<" ">>)

\* sourceFile.parseDiagnostics: createSourceFile does not throw on a syntax
\* error, it records it here.
parseDiagnostics(stmts) ==
  LET text == SourceText(stmts)
      opened == Cardinality({i \in DOMAIN text : text[i] = "{"})
      closed == Cardinality({i \in DOMAIN text : text[i] = "}"})
  IN IF opened > closed THEN <<"'}' expected.">>
     ELSE IF closed > opened THEN <<"Declaration or statement expected.">>
     ELSE <<>>

(***************************************************************************)
(* DependencyResolver                                                      *)
(***************************************************************************)
NameOf(node) ==
  IF node.children # <<>> /\ node.children[1].kind = "Identifier"
  THEN node.children[1].text ELSE ""

\* Module specifiers of the model that start with '.' or '/'.
RelativeSpecifiers == {"./helpers.ts", "./Card.tsx", "./dom.ts", "./missing.ts"}
StartsWithDotOrSlash(m) == m \in RelativeSpecifiers

\* The ImportInfo of one ImportDeclaration node.
ClauseSpecifiers(clause) ==
  LET ch == clause.children
      defaultPart ==
        IF ch # <<>> /\ ch[1].kind = "Identifier"
        THEN <<[name |-> ch[1].text, alias |-> Undefined, isDefault |-> TRUE, isNamespace |-> FALSE]>>
        ELSE <<>>
      bindings == SelectSeq(ch, LAMBDA c : c.kind \in {"NamespaceImport", "NamedImports"})
      bindingPart ==
        IF bindings = <<>> THEN <<>>
        ELSE IF bindings[1].kind = "NamespaceImport"
        THEN <<[name |-> bindings[1].children[1].text, alias |-> Undefined,
                isDefault |-> FALSE, isNamespace |-> TRUE]>>
        ELSE [i \in DOMAIN bindings[1].children |->
                LET el == bindings[1].children[i].children
                IN IF Len(el) = 2
                   THEN [name |-> el[1].text, alias |-> el[2].text,
                         isDefault |-> FALSE, isNamespace |-> FALSE]
                   ELSE [name |-> el[1].text, alias |-> Undefined,
                         isDefault |-> FALSE, isNamespace |-> FALSE]]
  IN defaultPart \o bindingPart

ImportInfoOf(node) ==
  LET clauses == SelectSeq(node.children, LAMBDA c : c.kind = "ImportClause")
      moduleSpecifier == SelectSeq(node.children, LAMBDA c : c.kind = "StringLiteral")[1]
  IN [module |-> moduleSpecifier.text,
      specifiers |-> IF clauses = <<>> THEN <<>> ELSE ClauseSpecifiers(clauses[1]),
      isRelative |-> StartsWithDotOrSlash(moduleSpecifier.text),
      resolvedPath |-> Undefined]

\* The nodes that a visit function reaches through ts.forEachChild, in the order
\* of the visit, each with the kind of its parent.
RECURSIVE Visited(_, _)
Visited(node, parentKind) ==
  <<[node |-> node, parentKind |-> parentKind]>>
  \o Flatten([i \in DOMAIN node.children |-> Visited(node.children[i], node.kind)])

extractImports(sourceFile) ==
  LET declarations == SelectSeq(Visited(sourceFile, ""), LAMBDA v : v.node.kind = "ImportDeclaration")
  IN [i \in DOMAIN declarations |-> ImportInfoOf(declarations[i].node)]

\* The elements of s in the order of their first occurrence: a Set filled by add.
InsertionOrder(s) ==
  LET first == SelectSeq([i \in DOMAIN s |-> i], LAMBDA i : \A j \in 1..(i - 1) : s[j] # s[i])
  IN [k \in DOMAIN first |-> s[first[k]]]

\* extractIdentifiers: [used, declared], both in insertion order.
extractIdentifiers(sourceFile) ==
  LET visited == Visited(sourceFile, "")
      declaring ==
        SelectSeq(visited, LAMBDA v :
          v.node.kind \in {"VariableDeclaration", "FunctionDeclaration", "ClassDeclaration"}
          /\ NameOf(v.node) # "")
      using ==
        SelectSeq(visited, LAMBDA v :
          v.node.kind = "Identifier" /\ v.parentKind # "PropertyAccessExpression")
  IN [used |-> InsertionOrder([i \in DOMAIN using |-> using[i].node.text]),
      declared |-> InsertionOrder([i \in DOMAIN declaring |-> NameOf(declaring[i].node)])]

\* A builtin set that lacks one of the standard constructors.
isBuiltinIdentifier_NoString(id) ==
  id \in {"console", "window", "document", "process", "global",
          "Array", "Object", "Number", "Boolean", "Date",
          "Promise", "Map", "Set", "Math", "JSON", "Error",
          "undefined", "null", "true", "false"}

isBuiltinIdentifier(id) ==
  id \in {"console", "window", "document", "process", "global",
          "Array", "Object", "String", "Number", "Boolean", "Date",
          "Promise", "Map", "Set", "Math", "JSON", "Error",
          "undefined", "null", "true", "false"}

\* for (const id of usedIdentifiers) if (!declared.has(id) && !isBuiltin(id)) missing.add(id)
MissingOf(used, declared) ==
  SelectSeq(used, LAMBDA id : id \notin Range(declared) /\ ~isBuiltinIdentifier(id))

\* Modules that ts.resolveModuleName or require.resolve finds, with their paths:
\* those that the file system holds at the time of the call.
ModulePath(m) ==
  CASE m = "react" -> "/node_modules/react/index.js"
    [] m = "state-lib" -> "/node_modules/state-lib/index.js"
    [] m = "./helpers.ts" -> "/project/helpers.ts"
    [] OTHER -> "/node_modules/" \o m
ResolvedFileName(m) == IF m \in installed THEN ModulePath(m) ELSE Undefined

CacheKey(moduleName, fromFile) ==
  <<moduleName, IF fromFile = Undefined THEN "root" ELSE fromFile>>

\* resolveModulePath: [result, cache]; result is Undefined for null.
resolveModulePath(cache, moduleName, fromFile) ==
  LET cacheKey == CacheKey(moduleName, fromFile)
  IN IF cacheKey \in DOMAIN cache
     THEN [result |-> cache[cacheKey], cache |-> cache]
     ELSE IF ResolvedFileName(moduleName) # Undefined
     THEN [result |-> ResolvedFileName(moduleName),
           cache |-> (cacheKey :> ResolvedFileName(moduleName)) @@ cache]
     ELSE [result |-> Undefined, cache |-> cache]

\* A loop that keeps only the imports it could resolve.
RECURSIVE ResolveImports_DropsUnresolved(_, _, _, _)
ResolveImports_DropsUnresolved(imports, i, filePath, acc) ==
  IF i > Len(imports) THEN acc
  ELSE LET r == resolveModulePath(acc.cache, imports[i].module, filePath)
       IN ResolveImports_DropsUnresolved(imports, i + 1, filePath,
            IF r.result # Undefined
            THEN [imports |-> Append(acc.imports, [imports[i] EXCEPT !.resolvedPath = r.result]),
                  resolvedModules |-> (imports[i].module :> r.result) @@ acc.resolvedModules,
                  cache |-> r.cache]
            ELSE [imports |-> acc.imports,
                  resolvedModules |-> acc.resolvedModules,
                  cache |-> r.cache])

\* The loop that resolves every import; acc is [imports, resolvedModules, cache].
RECURSIVE ResolveImports(_, _, _, _)
ResolveImports(imports, i, filePath, acc) ==
  IF i > Len(imports) THEN acc
  ELSE LET r == resolveModulePath(acc.cache, imports[i].module, filePath)
       IN ResolveImports(imports, i + 1, filePath,
            IF r.result # Undefined
            THEN [imports |-> Append(acc.imports, [imports[i] EXCEPT !.resolvedPath = r.result]),
                  resolvedModules |-> (imports[i].module :> r.result) @@ acc.resolvedModules,
                  cache |-> r.cache]
            ELSE [imports |-> Append(acc.imports, imports[i]),
                  resolvedModules |-> acc.resolvedModules,
                  cache |-> r.cache])

EmptyMap == [k \in {} |-> Undefined]

\* analyzeDependencies: [context, cache].
analyzeDependencies(cache, stmts, filePath) ==
  LET sourceFile == SourceFile(stmts)
      imports == extractImports(sourceFile)
      ids == extractIdentifiers(sourceFile)
      missingIdentifiers == MissingOf(ids.used, ids.declared)
      resolved == ResolveImports(imports, 1, filePath,
                     [imports |-> <<>>, resolvedModules |-> EmptyMap, cache |-> cache])
  IN [context |-> [imports |-> resolved.imports,
                   usedIdentifiers |-> ids.used,
                   missingIdentifiers |-> missingIdentifiers,
                   resolvedModules |-> resolved.resolvedModules],
      cache |-> resolved.cache]

\* What one node adds to the exports map of extractExportsFromFile.
ExportsOfNode(node) ==
  LET namedExports == SelectSeq(node.children, LAMBDA c : c.kind = "NamedExports")
      declNames ==
        IF node.kind = "VariableStatement"
        THEN {NameOf(d) : d \in Range(node.children[1].children)} \ {""}
        ELSE {}
  IN IF node.kind = "ExportDeclaration" /\ namedExports # <<>>
     THEN [n \in {e.children[Len(e.children)].text : e \in Range(namedExports[1].children)}
             |-> "named"]
     ELSE IF "ExportKeyword" \in node.modifiers
     THEN IF node.kind \in {"FunctionDeclaration", "ClassDeclaration"} /\ NameOf(node) # ""
          THEN (NameOf(node) :> "named")
          ELSE [n \in declNames |-> "named"]
     ELSE IF "DefaultKeyword" \in node.modifiers
             /\ node.kind \in {"FunctionDeclaration", "ClassDeclaration"} /\ NameOf(node) # ""
     THEN (NameOf(node) :> "default")
     ELSE EmptyMap

\* extractExportsFromFile: the map name -> 'named' | 'default' of one file; a
\* later exports.set of a name replaces an earlier one.
extractExportsFromFile(content) ==
  LET visited == Visited(SourceFile(content), "")
      setting(n) == {i \in DOMAIN visited : n \in DOMAIN ExportsOfNode(visited[i].node)}
      names == UNION {DOMAIN ExportsOfNode(visited[i].node) : i \in DOMAIN visited}
  IN [n \in names |->
        ExportsOfNode(visited[CHOOSE i \in setting(n) : \A k \in setting(n) : k <= i].node)[n]]

\* getCommonPackagesForIdentifier: the built-in name -> module table.
CommonMappings ==
  ("React" :> [module |-> "react", isDefault |-> TRUE])
  @@ ("useState" :> [module |-> "react", isDefault |-> FALSE])
  @@ ("useEffect" :> [module |-> "react", isDefault |-> FALSE])
  @@ ("useContext" :> [module |-> "react", isDefault |-> FALSE])
  @@ ("useMemo" :> [module |-> "react", isDefault |-> FALSE])
  @@ ("useCallback" :> [module |-> "react", isDefault |-> FALSE])
  @@ ("useRef" :> [module |-> "react", isDefault |-> FALSE])
  @@ ("styled" :> [module |-> "styled-components", isDefault |-> TRUE])
  @@ ("css" :> [module |-> "@emotion/react", isDefault |-> FALSE])
  @@ ("clsx" :> [module |-> "clsx", isDefault |-> TRUE])
  @@ ("classNames" :> [module |-> "classnames", isDefault |-> TRUE])
  @@ ("axios" :> [module |-> "axios", isDefault |-> TRUE])
  @@ ("_" :> [module |-> "lodash", isDefault |-> TRUE])
  @@ ("moment" :> [module |-> "moment", isDefault |-> TRUE])
  @@ ("dayjs" :> [module |-> "dayjs", isDefault |-> TRUE])

getCommonPackagesForIdentifier(identifier) ==
  IF identifier \in DOMAIN CommonMappings THEN <<CommonMappings[identifier]>> ELSE <<>>

\* path.relative(projectRoot, file.path) for the files of the model.
ProjectRoot == "/project"
PathRelative(p) ==
  CASE p = "/project/helpers.ts" -> "helpers.ts"
    [] p = "/project/Card.tsx" -> "Card.tsx"
    [] p = "/project/dom.ts" -> "dom.ts"
    [] p = "/project/Button.tsx" -> "Button.tsx"
    [] p = "/project/Greet.tsx" -> "Greet.tsx"
    [] OTHER -> p

\* The candidates in the other order: packages first, then project files.
PossibleImports_PackagesFirst(identifier, files) ==
  LET exporting == SelectSeq(files, LAMBDA f : identifier \in DOMAIN extractExportsFromFile(f.content))
      fromFiles ==
        [i \in DOMAIN exporting |->
           [module |-> "./" \o PathRelative(exporting[i].path),
            specifiers |-> <<[name |-> identifier, alias |-> Undefined,
                              isDefault |-> extractExportsFromFile(exporting[i].content)[identifier] = "default",
                              isNamespace |-> FALSE]>>,
            isRelative |-> TRUE,
            resolvedPath |-> exporting[i].path]]
      packages == getCommonPackagesForIdentifier(identifier)
      fromPackages ==
        [i \in DOMAIN packages |->
           [module |-> packages[i].module,
            specifiers |-> <<[name |-> identifier, alias |-> Undefined,
                              isDefault |-> packages[i].isDefault, isNamespace |-> FALSE]>>,
            isRelative |-> FALSE,
            resolvedPath |-> Undefined]]
  IN fromPackages \o fromFiles

\* The possibleImports of one identifier: project files first, then packages.
PossibleImports(identifier, files) ==
  LET exporting == SelectSeq(files, LAMBDA f : identifier \in DOMAIN extractExportsFromFile(f.content))
      fromFiles ==
        [i \in DOMAIN exporting |->
           [module |-> "./" \o PathRelative(exporting[i].path),
            specifiers |-> <<[name |-> identifier, alias |-> Undefined,
                              isDefault |-> extractExportsFromFile(exporting[i].content)[identifier] = "default",
                              isNamespace |-> FALSE]>>,
            isRelative |-> TRUE,
            resolvedPath |-> exporting[i].path]]
      packages == getCommonPackagesForIdentifier(identifier)
      fromPackages ==
        [i \in DOMAIN packages |->
           [module |-> packages[i].module,
            specifiers |-> <<[name |-> identifier, alias |-> Undefined,
                              isDefault |-> packages[i].isDefault, isNamespace |-> FALSE]>>,
            isRelative |-> FALSE,
            resolvedPath |-> Undefined]]
  IN fromFiles \o fromPackages

\* suggestImportsForIdentifiers: the entries <<identifier, possibleImports>> in
\* the order of missingIdentifiers; identifiers without a candidate have none.
suggestImportsForIdentifiers(missingIdentifiers, files) ==
  LET all == [i \in DOMAIN missingIdentifiers |->
                <<missingIdentifiers[i], PossibleImports(missingIdentifiers[i], files)>>]
  IN SelectSeq(all, LAMBDA e : Len(e[2]) > 0)

\* compile, step 2: the first candidate of every suggestion.
SelectSuggested(missingIdentifiers, files) ==
  IF Len(missingIdentifiers) > 0
  THEN LET suggestions == suggestImportsForIdentifiers(missingIdentifiers, files)
       IN [i \in DOMAIN suggestions |-> suggestions[i][2][1]]
  ELSE <<>>

(***************************************************************************)
(* SmartCompiler                                                           *)
(***************************************************************************)
SpecifierText(sp) ==
  IF sp.alias # Undefined THEN <<sp.name, " ", "as", " ", sp.alias>> ELSE <<sp.name>>

\* generateImportStatement: `import ${importClause} from '${imp.module}';`
generateImportStatement(imp) ==
  LET defaults == SelectSeq(imp.specifiers, LAMBDA sp : sp.isDefault)
      namedImports == SelectSeq(imp.specifiers, LAMBDA sp : ~sp.isDefault /\ ~sp.isNamespace)
      namespaces == SelectSeq(imp.specifiers, LAMBDA sp : sp.isNamespace)
      namedClause ==
        <<"{", " ">> \o JoinWith([i \in DOMAIN namedImports |-> SpecifierText(namedImports[i])],
                                 <<",", " ">>) \o <<" ", "}">>
      importClause ==
        IF defaults # <<>>
        THEN <<defaults[1].name>>
             \o (IF Len(namedImports) > 0 THEN <<",", " ">> \o namedClause ELSE <<>>)
        ELSE IF namespaces # <<>>
        THEN <<"*", " ", "as", " ", namespaces[1].name>>
        ELSE IF Len(namedImports) > 0 THEN namedClause
        ELSE <<>>
  IN <<"import", " ">> \o importClause \o <<" ", "from", " ", "'", imp.module, "'", ";">>

\* The key of an import in allImports: `${imp.module}:${names.join(',')}`.
ImportKey(imp) == <<imp.module, [i \in DOMAIN imp.specifiers |-> imp.specifiers[i].name]>>

\* Map.set on a map kept as the sequence of its entries in insertion order.
MapSet(m, k, v) ==
  IF \E i \in DOMAIN m : m[i].key = k
  THEN [i \in DOMAIN m |-> IF m[i].key = k THEN [key |-> k, value |-> v] ELSE m[i]]
  ELSE Append(m, [key |-> k, value |-> v])
MapValues(m) == [i \in DOMAIN m |-> m[i].value]

RECURSIVE MergeImports(_, _)
MergeImports(imports, allImports) ==
  IF imports = <<>> THEN allImports
  ELSE MergeImports(Tail(imports), MapSet(allImports, ImportKey(Head(imports)), Head(imports)))

ReactImport ==
  [module |-> "react",
   specifiers |-> <<[name |-> "React", alias |-> Undefined, isDefault |-> TRUE, isNamespace |-> FALSE]>>,
   isRelative |-> FALSE,
   resolvedPath |-> Undefined]

\* A check that is satisfied by any import of the module.
HasReact_AnyReactImport(allImports) ==
  \E i \in DOMAIN allImports : allImports[i].value.module = "react"

HasReact(allImports) ==
  \E i \in DOMAIN allImports :
    /\ allImports[i].value.module = "react"
    /\ \E j \in DOMAIN allImports[i].value.specifiers :
         allImports[i].value.specifiers[j].isDefault
         /\ allImports[i].value.specifiers[j].name = "React"

\* The first part of generateFullCode: the merged imports, React ensured.
AllImports(existingImports, suggested, additionalImports) ==
  LET merged == MergeImports(existingImports \o suggested \o additionalImports, <<>>)
  IN IF HasReact(merged) THEN merged
     ELSE MapSet(merged, <<"react", <<"React">>>>, ReactImport)

\* Text search: String.prototype.includes and the first match of a pattern.
At(text, i) == IF i \in DOMAIN text THEN text[i] ELSE ""
Includes(text, pattern) ==
  \E i \in 1..Len(text) : \A j \in DOMAIN pattern : At(text, i + j - 1) = pattern[j]

\* Tokens of the model's texts that are not made of word characters (\w).
NonWordTokens ==
  {"", " ", "\n", "{", "}", "(", ")", "[", "]", "=", ";", ",", ".", "*", "'", "<", "/>", "..."}
IsWord(t) == t \notin NonWordTokens

\* The pattern without its `class` alternative.
ComponentMatchAt_NoClass(text, i) ==
  LET j1 == IF At(text, i) = "export" /\ At(text, i + 1) = " " THEN i + 2 ELSE i
      j2 == IF At(text, j1) = "default" /\ At(text, j1 + 1) = " " THEN j1 + 2 ELSE j1
  IN IF At(text, j2) \in {"function", "const"}
        /\ At(text, j2 + 1) = " " /\ IsWord(At(text, j2 + 2))
     THEN At(text, j2 + 2) ELSE ""

\* /(?:export\s+)?(?:default\s+)?(?:function|const|class)\s+(\w+)/ tried at
\* position i: the captured name, or "" when the pattern does not match there.
ComponentMatchAt(text, i) ==
  LET j1 == IF At(text, i) = "export" /\ At(text, i + 1) = " " THEN i + 2 ELSE i
      j2 == IF At(text, j1) = "default" /\ At(text, j1 + 1) = " " THEN j1 + 2 ELSE j1
  IN IF At(text, j2) \in {"function", "const", "class"}
        /\ At(text, j2 + 1) = " " /\ IsWord(At(text, j2 + 2))
     THEN At(text, j2 + 2) ELSE ""

ComponentMatch(text) ==
  LET hits == {i \in 1..Len(text) : ComponentMatchAt(text, i) # ""}
  IN IF hits = {} THEN ""
     ELSE ComponentMatchAt(text, CHOOSE i \in hits : \A k \in hits : i <= k)

\* JSON.stringify(mockProps, null, 2), one token per line of output.
JSONStringify(entries) ==
  IF entries = <<>> THEN <<"{}">>
  ELSE <<"{", "\n">>
       \o JoinWith([i \in DOMAIN entries |-> <<"  ", entries[i][1], ":", " ", entries[i][2]>>],
                   <<",", "\n">>)
       \o <<"\n", "}">>

\* The text that wrapComponentCode appends after the fragment.
PreviewWrapperText(componentName, propsJson) ==
  <<"// Auto-generated preview wrapper", "\n",
    "export", " ", "default", " ", "function", " ", "PreviewWrapper", "(", ")", " ", "{", "\n",
    "const", " ", "mockProps", " ", "=", " ">> \o propsJson \o <<";", "\n",
    "try", " ", "{", "\n",
    "return", " ", "<", componentName, " ", "{", "...", "mockProps", "}", " ", "/>", ";", "\n",
    "}", " ", "catch", " ", "(", "error", ")", " ", "{", "\n",
    "return", " ", "<div style=...><h3>Component Error</h3><pre>{error.message}</pre></div>", ";", "\n",
    "}", "\n",
    "}", "\n">>

\* Wrappers that test for one of the two export forms only.
wrapComponentCode_DefaultOnly(text, mockProps) ==
  LET componentMatch == ComponentMatch(text)
      componentName == IF componentMatch # "" THEN componentMatch ELSE "Component"
      propsJson == IF mockProps.given THEN JSONStringify(mockProps.entries) ELSE <<"{}">>
  IN IF Includes(text, <<"export", " ", "default">>)
     THEN text
     ELSE <<"\n">> \o text \o <<"\n", "\n">> \o PreviewWrapperText(componentName, propsJson)
wrapComponentCode_BracesOnly(text, mockProps) ==
  LET componentMatch == ComponentMatch(text)
      componentName == IF componentMatch # "" THEN componentMatch ELSE "Component"
      propsJson == IF mockProps.given THEN JSONStringify(mockProps.entries) ELSE <<"{}">>
  IN IF Includes(text, <<"export", " ", "{">>)
     THEN text
     ELSE <<"\n">> \o text \o <<"\n", "\n">> \o PreviewWrapperText(componentName, propsJson)

\* wrapComponentCode(code, mockProps) on the text of the fragment.
wrapComponentCode(text, mockProps) ==
  LET componentMatch == ComponentMatch(text)
      componentName == IF componentMatch # "" THEN componentMatch ELSE "Component"
      propsJson == IF mockProps.given THEN JSONStringify(mockProps.entries) ELSE <<"{}">>
  IN IF Includes(text, <<"export", " ", "default">>) \/ Includes(text, <<"export", " ", "{">>)
     THEN text
     ELSE <<"\n">> \o text \o <<"\n", "\n">> \o PreviewWrapperText(componentName, propsJson)

\* generateFullCode: the assembled source unit.  allImports, a local of the
\* method, is kept beside the text for inspection.
generateFullCode(stmts, existingImports, suggested, opts) ==
  LET allImports == AllImports(existingImports, suggested, opts.additionalImports)
      values == MapValues(allImports)
      importStatements ==
        JoinWith([i \in DOMAIN values |-> generateImportStatement(values[i])], <<"\n">>)
      componentCode ==
        IF opts.wrapComponent # "false"
        THEN wrapComponentCode(SourceText(stmts), opts.mockProps)
        ELSE SourceText(stmts)
  IN [allImports |-> allImports,
      text |-> <<"\n">> \o importStatements \o <<"\n", "\n">> \o componentCode \o <<"\n">>]

(***************************************************************************)
(* Inputs of the model                                                     *)
(***************************************************************************)
Named(n) == [name |-> n, alias |-> Undefined, isDefault |-> FALSE, isNamespace |-> FALSE]

ImportStatements ==
  {ImportDecl("React", "", <<>>, "react"),
   ImportDecl("", "", <<<<"", "useState">>>>, "state-lib"),
   ImportDecl("", "", <<<<"useState", "us">>>>, "react"),
   ImportDecl("", "", <<<<"", "useState">>, <<"", "useEffect">>>>, "react")}

OtherStatements ==
  {FunctionDecl("", "Greet", <<DestructuredParam("name")>>,
     <<Return(Call(Ref("el"), <<StringLit("div"), NullLit, Ref("name")>>))>>),
   FunctionDecl("export default", "Counter", <<>>,
     <<VarStmt("", "const", "s", Call(Ref("useState"), <<NumberLit("0")>>)),
       Return(Call(Ref("String"), <<Ref("s")>>))>>),
   VarStmt("export", "const", "Card", Call(Ref("el"), <<StringLit("div")>>)),
   ClassDecl("", "Panel"),
   ExportList("Greet"),
   VarStmt("", "let", "view", Member("props", "title")),
   DestructuringStmt("const", "title", Ref("props")),
   ExportDefaultExpr("Greet")}

Statements == ImportStatements \cup OtherStatements

Fragments == UNION {[1..n -> Statements] : n \in 0..MaxStmts}

AdditionalImportChoices ==
  {[module |-> "react", specifiers |-> <<Named("useState")>>,
    isRelative |-> FALSE, resolvedPath |-> Undefined],
   [module |-> "react", specifiers |-> <<Named("useEffect"), Named("useState")>>,
    isRelative |-> FALSE, resolvedPath |-> Undefined],
   ReactImport}

NoMockProps == [given |-> FALSE, entries |-> <<>>]
MockPropsChoices == {NoMockProps, [given |-> TRUE, entries |-> <<<<"\"label\"", "\"OK\"">>>>]}

WrapComponentChoices == {Undefined, "true", "false"}

OptionChoices ==
  [mockProps : MockPropsChoices,
   wrapComponent : WrapComponentChoices,
   additionalImports : UNION {[1..n -> AdditionalImportChoices] : n \in 0..MaxAdditional},
   filePath : {Undefined}]

Corpus ==
  <<[path |-> "/project/helpers.ts",
     content |-> <<FunctionDecl("export", "el", <<>>, <<>>)>>],
    [path |-> "/project/Card.tsx",
     content |-> <<FunctionDecl("export default", "Card", <<>>, <<>>)>>]>>

(***************************************************************************)
(* SmartCompiler.compile, one action per stretch between two awaits        *)
(***************************************************************************)
NoContext ==
  [imports |-> <<>>, usedIdentifiers |-> <<>>, missingIdentifiers |-> <<>>,
   resolvedModules |-> EmptyMap]
NoFullCode == [allImports |-> <<>>, text |-> <<>>]
NoCompletion == [finalCode |-> <<>>, suggestions |-> <<>>]
NoResult == [kind |-> "none"]

\* No batch, no call in progress, no preview server, an empty completer cache
\* and an executor without logs.
NoServices ==
  /\ codeSnippets = <<>>
  /\ results = <<>>
  /\ calls = <<>>
  /\ previewServer = Undefined
  /\ servers = <<>>
  /\ completerCache = <<>>
  /\ logs = <<>>

Init ==
  /\ pc = "idle"
  /\ code = <<>>
  /\ options = [mockProps |-> NoMockProps, wrapComponent |-> Undefined,
                additionalImports |-> <<>>, filePath |-> Undefined]
  /\ projectFiles = Corpus
  /\ moduleResolutionCache = EmptyMap
  /\ depContext = NoContext
  /\ suggestedImports = <<>>
  /\ fullCode = NoFullCode
  /\ installed = {"react"}
  /\ log = <<>>
  /\ components = <<>>
  /\ codeContext = Undefined
  /\ completion = NoCompletion
  /\ result = NoResult
  /\ NoServices

\* compile(options) up to the return of analyzeDependencies.  Only options.code
\* and options.filePath are read here; the other fields of the request are
\* drawn where compile first reads them, in step 3.
CompileAnalyze ==
  /\ pc = "idle"
  /\ \E stmts \in Fragments, filePath \in {Undefined} :
       LET r == analyzeDependencies(moduleResolutionCache, stmts, filePath)
       IN /\ code' = stmts
          /\ options' = [options EXCEPT !.filePath = filePath]
          /\ depContext' = r.context
          /\ moduleResolutionCache' = r.cache
  /\ pc' = "analyzed"
  /\ UNCHANGED <<projectFiles, suggestedImports, fullCode>>
  /\ UNCHANGED otherVars
  /\ UNCHANGED serviceVars

\* Step 2 of compile: the suggested imports.
CompileSuggest ==
  /\ pc = "analyzed"
  /\ suggestedImports' = SelectSuggested(depContext.missingIdentifiers, projectFiles)
  /\ pc' = "suggested"
  /\ UNCHANGED <<code, options, projectFiles, moduleResolutionCache, depContext, fullCode>>
  /\ UNCHANGED otherVars
  /\ UNCHANGED serviceVars

\* Step 3 of compile: the assembled source unit.
CompileGenerate ==
  /\ pc = "suggested"
  /\ \E opts \in OptionChoices :
       /\ opts.filePath = options.filePath
       /\ options' = opts
       /\ fullCode' = generateFullCode(code, depContext.imports, suggestedImports, opts)
  /\ pc' = "generated"
  /\ UNCHANGED <<code, projectFiles, moduleResolutionCache, depContext, suggestedImports>>
  /\ UNCHANGED otherVars
  /\ UNCHANGED serviceVars

Next == CompileAnalyze \/ CompileSuggest \/ CompileGenerate

Spec == Init /\ [][Next]_vars

(***************************************************************************)
(* Round trip of one import statement: extractImports on the statement,    *)
(* then generateImportStatement on what was extracted.                     *)
(***************************************************************************)
MaxNamed == 2

RoundTripBindings == {<<"", "useState">>, <<"", "useEffect">>, <<"useState", "us">>}

\* The clauses of the grammar: a default name, then a namespace or a list of
\* named bindings, at least one of the three.
RoundTripClauses ==
  {c \in [defaultName : {"", "React", "Lib"},
          namespaceName : {"", "NS"},
          named : UNION {[1..n -> RoundTripBindings] : n \in 0..MaxNamed},
          module : {"react", "state-lib"}] :
     /\ ~(c.namespaceName # "" /\ c.named # <<>>)
     /\ (c.defaultName # "" \/ c.namespaceName # "" \/ c.named # <<>>)}

RoundTripImports ==
  {ImportDecl(c.defaultName, c.namespaceName, c.named, c.module) : c \in RoundTripClauses}

RoundTripExtract ==
  /\ pc = "idle"
  /\ \E stmt \in RoundTripImports :
       /\ code' = <<stmt>>
       /\ depContext' = [NoContext EXCEPT !.imports = extractImports(SourceFile(<<stmt>>))]
  /\ pc' = "extracted"
  /\ UNCHANGED <<options, projectFiles, moduleResolutionCache, suggestedImports, fullCode>>
  /\ UNCHANGED otherVars
  /\ UNCHANGED serviceVars

RoundTripEmit ==
  /\ pc = "extracted"
  /\ fullCode' =
       [allImports |-> <<>>,
        text |-> JoinWith([i \in DOMAIN depContext.imports |->
                             generateImportStatement(depContext.imports[i])], <<"\n">>)]
  /\ pc' = "emitted"
  /\ UNCHANGED <<code, options, projectFiles, moduleResolutionCache, depContext, suggestedImports>>
  /\ UNCHANGED otherVars
  /\ UNCHANGED serviceVars

NextRoundTrip == RoundTripExtract \/ RoundTripEmit

SpecRoundTrip == Init /\ [][NextRoundTrip]_vars

(***************************************************************************)
(* Steps 1 and 2 of compile over the corpora that a project scan can give. *)
(***************************************************************************)
CorpusFiles ==
  {[path |-> "/project/helpers.ts",
    content |-> <<FunctionDecl("export", "el", <<>>, <<>>)>>],
   [path |-> "/project/dom.ts",
    content |-> <<FunctionDecl("export", "el", <<>>, <<>>),
                  FunctionDecl("export", "useEffect", <<>>, <<>>)>>],
   [path |-> "/project/Greet.tsx",
    content |-> <<FunctionDecl("export default", "Greet", <<>>, <<>>)>>]}

\* The corpora: the files in any order, each at most once.
CorpusChoices ==
  {c \in UNION {[1..n -> CorpusFiles] : n \in 0..Cardinality(CorpusFiles)} :
     \A i, j \in DOMAIN c : c[i] = c[j] => i = j}

InitSuggest ==
  /\ pc = "idle"
  /\ code = <<>>
  /\ options = [mockProps |-> NoMockProps, wrapComponent |-> Undefined,
                additionalImports |-> <<>>, filePath |-> Undefined]
  /\ projectFiles \in CorpusChoices
  /\ moduleResolutionCache = EmptyMap
  /\ depContext = NoContext
  /\ suggestedImports = <<>>
  /\ fullCode = NoFullCode
  /\ installed = {"react"}
  /\ log = <<>>
  /\ components = <<>>
  /\ codeContext = Undefined
  /\ completion = NoCompletion
  /\ result = NoResult
  /\ NoServices

NextSuggest == CompileAnalyze \/ CompileSuggest

SpecSuggest == InitSuggest /\ [][NextSuggest]_vars

(***************************************************************************)
(* compile to its end: the build of the assembled unit by the bundler and  *)
(* the CompilationResult; and JSXCompiler.compileJSXSnippet.               *)
(***************************************************************************)
BuildStatements ==
  {ImportDecl("React", "", <<>>, "react"),
   ImportDecl("", "", <<<<"", "useState">>>>, "state-lib"),
   ImportDecl("", "", <<<<"", "el">>>>, "./helpers.ts"),
   ImportDecl("", "", <<<<"", "gone">>>>, "./missing.ts"),
   ExportDefaultExpr("Greet"),
   ClassDecl("", "Panel")}

BuildFragments == UNION {[1..n -> BuildStatements] : n \in 0..MaxStmts}

\* What the disk holds when the request is made.
FileSystems == {{"react"}, {"react", "./helpers.ts"}, {"react", "state-lib", "./helpers.ts"}}

InitBuild ==
  /\ pc = "idle"
  /\ code = <<>>
  /\ options = [mockProps |-> NoMockProps, wrapComponent |-> Undefined,
                additionalImports |-> <<>>, filePath |-> Undefined]
  /\ projectFiles = Corpus
  /\ moduleResolutionCache = EmptyMap
  /\ depContext = NoContext
  /\ suggestedImports = <<>>
  /\ fullCode = NoFullCode
  /\ installed \in FileSystems
  /\ log = <<>>
  /\ components = <<>>
  /\ codeContext = Undefined
  /\ completion = NoCompletion
  /\ result = NoResult
  /\ NoServices

\* Steps 1 and 3 of compile for the requests of this specification.
BuildAnalyze ==
  /\ pc = "idle"
  /\ \E stmts \in BuildFragments :
       LET r == analyzeDependencies(moduleResolutionCache, stmts, Undefined)
       IN /\ code' = stmts
          /\ depContext' = r.context
          /\ moduleResolutionCache' = r.cache
  /\ pc' = "analyzed"
  /\ UNCHANGED <<options, projectFiles, suggestedImports, fullCode>>
  /\ UNCHANGED otherVars
  /\ UNCHANGED serviceVars

BuildGenerate ==
  /\ pc = "suggested"
  /\ fullCode' = generateFullCode(code, depContext.imports, suggestedImports, options)
  /\ pc' = "generated"
  /\ UNCHANGED <<code, options, projectFiles, moduleResolutionCache, depContext, suggestedImports>>
  /\ UNCHANGED otherVars
  /\ UNCHANGED serviceVars

\* The module specifiers of a text, which the bundler asks its plugins to resolve.
ImportedPaths(text) ==
  {text[i + 3] : i \in {j \in DOMAIN text : text[j] = "from" /\ At(text, j + 2) = "'"}}

\* The onResolve callback of createResolvePlugin.
NoResolution == [kind |-> "null", path |-> Undefined]
onResolve(resolvedModules, path) ==
  IF path \in DOMAIN resolvedModules
  THEN [kind |-> "file", path |-> resolvedModules[path]]
  ELSE IF ~StartsWithDotOrSlash(path)
  THEN IF ResolvedFileName(path) # Undefined
       THEN [kind |-> "path", path |-> ResolvedFileName(path)]
       ELSE [kind |-> "external", path |-> Undefined]
  ELSE NoResolution

\* The paths that neither the plugin nor the bundler's own resolution maps.
Unresolvable(text, resolvedModules) ==
  {path \in ImportedPaths(text) :
     onResolve(resolvedModules, path) = NoResolution /\ ResolvedFileName(path) = Undefined}

\* What esbuild.build can answer.  A path that nothing resolves fails the
\* build; otherwise the build is rejected or resolves with its errors, its
\* warnings and its output files.
BundlerWarnings == {<<>>, <<<<"Unused", "label">>>>}
BundlerErrors == {<<>>, <<<<"Unexpected", "token">>>>, <<<<"Unexpected", "token">>, <<"Expected", ";">>>>}
OutputFiles == {Undefined, <<>>, <<"bundle.js">>}
Rejected(message) ==
  [kind |-> "rejected", message |-> message, errors |-> <<>>, warnings |-> <<>>,
   outputFiles |-> Undefined]
BuildOutcomes(text, resolvedModules) ==
  IF Unresolvable(text, resolvedModules) # {}
  THEN {Rejected(<<"Could not resolve", path>>) : path \in Unresolvable(text, resolvedModules)}
  ELSE {Rejected(<<"The service was stopped">>)}
       \cup [kind : {"resolved"}, message : {<<>>}, errors : BundlerErrors,
             warnings : BundlerWarnings, outputFiles : OutputFiles]

\* A CompilationResult; an absent field is Undefined.
CompilationResult(success, text, error, warnings) ==
  [kind |-> "returned", success |-> success, code |-> text, error |-> error,
   warnings |-> warnings]

\* compile after the build: the two returns and the catch.
ResultOfBuild(outcome) ==
  IF outcome.kind = "rejected"
  THEN CompilationResult(FALSE, Undefined, outcome.message, Undefined)
  ELSE IF Len(outcome.errors) > 0
  THEN CompilationResult(FALSE, Undefined, JoinWith(outcome.errors, <<"\n">>), Undefined)
  ELSE IF outcome.outputFiles = Undefined \/ outcome.outputFiles = <<>>
  THEN CompilationResult(FALSE, Undefined,
         <<"Cannot read properties of undefined">>, Undefined)
  ELSE CompilationResult(TRUE, outcome.outputFiles[1], Undefined, outcome.warnings)

\* Step 4 of compile and its return.
CompileBuild ==
  /\ pc = "generated"
  /\ \E outcome \in BuildOutcomes(fullCode.text, depContext.resolvedModules) :
       result' = ResultOfBuild(outcome)
  /\ pc' = "built"
  /\ UNCHANGED <<code, options, projectFiles, moduleResolutionCache, depContext,
                 suggestedImports, fullCode>>
  /\ UNCHANGED <<installed, log, components, codeContext, completion>>
  /\ UNCHANGED serviceVars

\* JSXCompiler.mergeSnippetWithContext for a compiler made with an empty
\* context and a snippet without dependencies.
mergeSnippetWithContext(stmts) ==
  <<"\n">>
  \o generateImportStatement(ReactImport) \o <<"\n">>
  \o generateImportStatement([ReactImport EXCEPT !.module = "react-dom",
                                                 !.specifiers[1].name = "ReactDOM"])
  \o <<"\n", "\n", "// Project Context Code", "\n", "\n", "\n", "\n",
       "// User JSX Snippet", "\n">>
  \o SourceText(stmts) \o <<"\n">>

\* compileJSXSnippet after the build: the return and the catch.
ResultOfSnippetBuild(outcome) ==
  IF outcome.kind = "rejected"
  THEN CompilationResult(FALSE, Undefined, outcome.message, Undefined)
  ELSE CompilationResult(TRUE,
         IF outcome.outputFiles = Undefined \/ outcome.outputFiles = <<>>
         THEN Undefined ELSE outcome.outputFiles[1],
         Undefined, outcome.warnings)

\* compileJSXSnippet(snippet); the build does not bundle, so it resolves no path.
CompileJSXSnippet ==
  /\ pc = "idle"
  /\ \E stmts \in BuildFragments :
       /\ code' = stmts
       /\ fullCode' = [allImports |-> <<>>, text |-> mergeSnippetWithContext(stmts)]
  /\ \E outcome \in BuildOutcomes(<<>>, EmptyMap) : result' = ResultOfSnippetBuild(outcome)
  /\ pc' = "snippet-built"
  /\ UNCHANGED <<options, projectFiles, moduleResolutionCache, depContext, suggestedImports>>
  /\ UNCHANGED <<installed, log, components, codeContext, completion>>
  /\ UNCHANGED serviceVars

NextBuild ==
  BuildAnalyze \/ CompileSuggest \/ BuildGenerate \/ CompileBuild \/ CompileJSXSnippet

SpecBuild == InitBuild /\ [][NextBuild]_vars

(***************************************************************************)
(* One DependencyResolver instance over its lifetime: calls of             *)
(* analyzeDependencies and of resolveModulePath, while the disk changes.   *)
(***************************************************************************)
MaxCalls == 2

ResolverModules == {"react", "state-lib"}
FilePaths == {Undefined, "/project/src/App.tsx"}

ResolverFragments ==
  {<<ImportDecl("React", "", <<>>, "react"),
     ImportDecl("", "", <<<<"", "useState">>>>, "state-lib")>>,
   <<ImportDecl("", "", <<<<"", "useState">>>>, "state-lib")>>,
   <<ImportDecl("", "", <<<<"", "useState">>>>, "state-lib"),
     ImportDecl("Lib", "", <<>>, "state-lib")>>,
   <<ImportDecl("React", "", <<>>, "react"), UnclosedFunctionDecl("Broken")>>}

\* A value that an async method returned to its caller.
Fulfilled(v) == [kind |-> "fulfilled", value |-> v]

\* await resolver.analyzeDependencies(code, filePath)
ResolverAnalyze ==
  /\ Len(log) < MaxCalls
  /\ \E stmts \in ResolverFragments, filePath \in FilePaths :
       LET r == analyzeDependencies(moduleResolutionCache, stmts, filePath)
       IN /\ code' = stmts
          /\ depContext' = r.context
          /\ moduleResolutionCache' = r.cache
          /\ log' = Append(log, [op |-> "analyzeDependencies", code |-> stmts,
                                 moduleName |-> Undefined, fromFile |-> filePath,
                                 disk |-> installed, returned |-> Fulfilled(r.context)])
  /\ UNCHANGED <<pc, options, projectFiles, suggestedImports, fullCode>>
  /\ UNCHANGED <<installed, components, codeContext, completion, result>>
  /\ UNCHANGED serviceVars

\* await resolver.resolveModulePath(moduleName, fromFile)
ResolverResolve ==
  /\ Len(log) < MaxCalls
  /\ \E moduleName \in ResolverModules, fromFile \in FilePaths :
       LET r == resolveModulePath(moduleResolutionCache, moduleName, fromFile)
       IN /\ moduleResolutionCache' = r.cache
          /\ log' = Append(log, [op |-> "resolveModulePath", code |-> <<>>,
                                 moduleName |-> moduleName, fromFile |-> fromFile,
                                 disk |-> installed, returned |-> Fulfilled(r.result)])
  /\ UNCHANGED <<pc, code, options, projectFiles, depContext, suggestedImports, fullCode>>
  /\ UNCHANGED <<installed, components, codeContext, completion, result>>
  /\ UNCHANGED serviceVars

\* The disk changes between two calls: a package is installed or removed.
FsInstall ==
  /\ \E m \in ResolverModules \ installed : installed' = installed \cup {m}
  /\ UNCHANGED <<pc, code, options, projectFiles, moduleResolutionCache, depContext,
                 suggestedImports, fullCode>>
  /\ UNCHANGED <<log, components, codeContext, completion, result>>
  /\ UNCHANGED serviceVars

FsRemove ==
  /\ \E m \in installed \cap ResolverModules : installed' = installed \ {m}
  /\ UNCHANGED <<pc, code, options, projectFiles, moduleResolutionCache, depContext,
                 suggestedImports, fullCode>>
  /\ UNCHANGED <<log, components, codeContext, completion, result>>
  /\ UNCHANGED serviceVars

NextResolver == ResolverAnalyze \/ ResolverResolve \/ FsInstall \/ FsRemove

SpecResolver == Init /\ [][NextResolver]_vars

(***************************************************************************)
(* ComponentDetector: the catalog of the components of the project files.  *)
(***************************************************************************)
MaxFiles == 2

\* The text of a modifier token (mod.getText()).
ModifierText(kind) ==
  CASE kind = "ExportKeyword" -> <<"export">>
    [] kind = "DefaultKeyword" -> <<"default">>
    [] OTHER -> <<>>

\* isReactComponent: the type of the node has a call signature whose return
\* type is an element type; here, the function returns a JSX element.
isReactComponent(node) ==
  IF node.kind = "FunctionDeclaration"
  THEN \E b \in Range(node.children) :
         /\ b.kind = "Block"
         /\ \E st \in Range(b.children) :
              st.kind = "ReturnStatement" /\ st.children[1].kind = "JsxSelfClosingElement"
  ELSE IF node.kind = "ArrowFunction"
  THEN node.children[Len(node.children)].kind = "JsxSelfClosingElement"
  ELSE FALSE

\* isReactClassComponent: a heritage clause whose text includes 'Component'.
isReactClassComponent(node) ==
  \E h \in Range(node.children) :
    /\ h.kind = "HeritageClause"
    /\ \E t \in Range(h.children) : NameOf(t) \in {"Component", "PureComponent"}

\* isDefaultExport(node, sourceFile)
isDefaultExport(node, sourceFile) ==
  \/ \E st \in Range(sourceFile.children) :
       /\ st.kind = "ExportAssignment"
       /\ st.children[1].kind = "Identifier"
       /\ node.kind \in {"FunctionDeclaration", "VariableDeclaration", "ClassDeclaration"}
       /\ NameOf(node) # ""
       /\ NameOf(node) = st.children[1].text
  \/ \E mod \in node.modifiers :
       mod = "ExportKeyword" /\ Includes(ModifierText(mod), <<"default">>)

\* analyzeFunction, analyzeVariableDeclaration and analyzeClass: the
\* ComponentInfo of a node, or none.  props, line and column are left out.
ComponentsOfNode(node, filePath, sourceFile) ==
  LET info(type) ==
        <<[name |-> NameOf(node), filePath |-> filePath,
           isDefaultExport |-> isDefaultExport(node, sourceFile), type |-> type]>>
  IN IF node.kind = "FunctionDeclaration" /\ NameOf(node) # ""
     THEN IF isReactComponent(node) THEN info("function") ELSE <<>>
     ELSE IF node.kind = "VariableDeclaration" /\ Len(node.children) = 2
     THEN IF /\ NameOf(node) # ""
             /\ node.children[2].kind \in {"ArrowFunction", "FunctionExpression"}
             /\ isReactComponent(node.children[2])
          THEN info(IF node.children[2].kind = "ArrowFunction" THEN "arrow" ELSE "function")
          ELSE <<>>
     ELSE IF node.kind = "ClassDeclaration" /\ NameOf(node) # ""
     THEN IF isReactClassComponent(node) THEN info("class") ELSE <<>>
     ELSE <<>>

extractComponentsFromFile(sourceFile, filePath) ==
  LET visited == Visited(sourceFile, "")
  IN Flatten([i \in DOMAIN visited |-> ComponentsOfNode(visited[i].node, filePath, sourceFile)])

\* detectComponents(files); the program holds every source file of the project.
detectComponents(files) ==
  Flatten([i \in DOMAIN files |->
             IF files[i].type \notin {"tsx", "ts", "jsx", "js"} THEN <<>>
             ELSE extractComponentsFromFile(SourceFile(files[i].content), files[i].path)])

CatalogFiles ==
  {[path |-> "/project/Button.tsx", type |-> "tsx",
    content |-> <<VarStmt("export", "const", "Button", ArrowFunction(JsxElement("button")))>>],
   [path |-> "/project/Card.tsx", type |-> "tsx",
    content |-> <<FunctionDecl("export default", "Card", <<>>, <<Return(JsxElement("div"))>>)>>],
   [path |-> "/project/CardByStatement.tsx", type |-> "tsx",
    content |-> <<FunctionDecl("", "Card", <<>>, <<Return(JsxElement("div"))>>),
                  ExportDefaultExpr("Card")>>],
   [path |-> "/project/CardClass.tsx", type |-> "tsx",
    content |-> <<ClassDeclExtends("export default", "Card", "Component")>>],
   [path |-> "/project/CardArrow.tsx", type |-> "tsx",
    content |-> <<VarStmt("", "const", "Card", ArrowFunction(JsxElement("div"))),
                  ExportDefaultExpr("Card")>>],
   [path |-> "/project/helpers.ts", type |-> "ts",
    content |-> <<FunctionDecl("export", "el", <<>>, <<>>),
                  ClassDeclExtends("", "Panel", "Component")>>],
   [path |-> "/project/package.json", type |-> "json", content |-> <<>>]}

CatalogCorpora == UNION {[1..n -> CatalogFiles] : n \in 0..MaxFiles}

InitCatalog ==
  /\ pc = "idle"
  /\ code = <<>>
  /\ options = [mockProps |-> NoMockProps, wrapComponent |-> Undefined,
                additionalImports |-> <<>>, filePath |-> Undefined]
  /\ projectFiles \in CatalogCorpora
  /\ moduleResolutionCache = EmptyMap
  /\ depContext = NoContext
  /\ suggestedImports = <<>>
  /\ fullCode = NoFullCode
  /\ installed = {"react"}
  /\ log = <<>>
  /\ components = <<>>
  /\ codeContext = Undefined
  /\ completion = NoCompletion
  /\ result = NoResult
  /\ NoServices

DetectComponents ==
  /\ pc = "idle"
  /\ components' = detectComponents(projectFiles)
  /\ pc' = "detected"
  /\ UNCHANGED <<code, options, projectFiles, moduleResolutionCache, depContext,
                 suggestedImports, fullCode>>
  /\ UNCHANGED <<installed, log, codeContext, completion, result>>
  /\ UNCHANGED serviceVars

NextCatalog == DetectComponents

SpecCatalog == InitCatalog /\ [][NextCatalog]_vars

(***************************************************************************)
(* PartialRenderer.renderPartial, one action per stretch between awaits.   *)
(***************************************************************************)
RenderFragments ==
  {<<>>,
   <<ClassDecl("", "Panel")>>,
   <<FunctionDecl("", "Greet", <<DestructuredParam("name")>>,
       <<Return(Call(Ref("el"), <<StringLit("div"), NullLit, Ref("name")>>))>>)>>,
   <<ImportDecl("", "", <<<<"", "gone">>>>, "./missing.ts"), ExportDefaultExpr("Greet")>>}

\* A promise that rejected, with the message of its reason.
RejectedWith(message) == [kind |-> "rejected", message |-> message]

\* A PartialRenderResult; an absent field is Undefined.
PartialRenderResult(success, error, html, suggestions, usedImports) ==
  [kind |-> "fulfilled", success |-> success, error |-> error, html |-> html,
   suggestions |-> suggestions, usedImports |-> usedImports]

InitRender ==
  /\ pc = "idle"
  /\ code = <<>>
  /\ options \in [enableAI : BOOLEAN, mockProps : {NoMockProps}]
  /\ projectFiles = <<>>
  /\ moduleResolutionCache = EmptyMap
  /\ depContext = NoContext
  /\ suggestedImports = <<>>
  /\ fullCode = NoFullCode
  /\ installed = {"react"}
  /\ log = <<>>
  /\ components = <<>>
  /\ codeContext = Undefined
  /\ completion = NoCompletion
  /\ result = NoResult
  /\ NoServices

\* renderPartial(code) is called; the previous request, if any, has returned.
RenderCall ==
  /\ pc \in {"idle", "done"}
  /\ \E stmts \in RenderFragments : code' = stmts
  /\ result' = NoResult
  /\ pc' = IF codeContext = Undefined THEN "initializing" ELSE "analyzing"
  /\ UNCHANGED <<options, projectFiles, moduleResolutionCache, depContext, suggestedImports,
                 fullCode, installed, log, components, codeContext, completion>>
  /\ UNCHANGED serviceVars

\* `if (!this.codeContext) await this.initialize()`, before the try block: the
\* project scan succeeds, or it rejects and so does renderPartial.
RenderInitialize ==
  /\ pc = "initializing"
  /\ \/ /\ codeContext' = "scanned"
        /\ projectFiles' = Corpus
        /\ pc' = "analyzing"
        /\ UNCHANGED result
     \/ /\ result' = RejectedWith(<<"EACCES: permission denied, scandir">>)
        /\ pc' = "done"
        /\ UNCHANGED <<codeContext, projectFiles>>
  /\ UNCHANGED <<code, options, moduleResolutionCache, depContext, suggestedImports,
                 fullCode, installed, log, components, completion>>
  /\ UNCHANGED serviceVars

\* Step 1 of renderPartial.
RenderAnalyze ==
  /\ pc = "analyzing"
  /\ LET r == analyzeDependencies(moduleResolutionCache, code, Undefined)
     IN /\ depContext' = r.context
        /\ moduleResolutionCache' = r.cache
        /\ pc' = IF options.enableAI /\ Len(r.context.missingIdentifiers) > 0
                 THEN "completing" ELSE "compiling"
  /\ completion' = [finalCode |-> code, suggestions |-> <<>>]
  /\ UNCHANGED <<code, options, projectFiles, suggestedImports, fullCode, installed, log,
                 components, codeContext, result>>
  /\ UNCHANGED serviceVars

\* Step 2: completePartialCode returns a completion that is trusted
\* (confidence > 0.7) or not, or it rejects.
RenderComplete ==
  /\ pc = "completing"
  /\ \/ /\ \E completed \in RenderFragments :
             completion' = [finalCode |-> completed, suggestions |-> <<"Add missing imports">>]
        /\ pc' = "compiling"
        /\ UNCHANGED result
     \/ /\ pc' = "compiling"
        /\ UNCHANGED <<completion, result>>
     \/ /\ result' = PartialRenderResult(FALSE, <<"fetch failed">>, Undefined, Undefined, Undefined)
        /\ pc' = "done"
        /\ UNCHANGED completion
  /\ UNCHANGED <<code, options, projectFiles, moduleResolutionCache, depContext,
                 suggestedImports, fullCode, installed, log, components, codeContext>>
  /\ UNCHANGED serviceVars

\* What this.compiler.compile can return for a fragment: the whole of compile.
CompileResults(stmts, files, mockProps) ==
  LET r == analyzeDependencies(EmptyMap, stmts, Undefined)
      suggested == SelectSuggested(r.context.missingIdentifiers, files)
      unit == generateFullCode(stmts, r.context.imports, suggested,
                [mockProps |-> mockProps, wrapComponent |-> "true",
                 additionalImports |-> <<>>, filePath |-> Undefined])
  IN {ResultOfBuild(outcome) : outcome \in BuildOutcomes(unit.text, r.context.resolvedModules)}

\* Step 3: the compilation and the return of its failure.
RenderCompile ==
  /\ pc = "compiling"
  /\ \E compilationResult \in CompileResults(completion.finalCode, projectFiles, options.mockProps) :
       IF ~compilationResult.success
       THEN /\ result' = PartialRenderResult(FALSE, compilationResult.error, Undefined,
                                             completion.suggestions, Undefined)
            /\ pc' = "done"
       ELSE /\ pc' = "rendering"
            /\ UNCHANGED result
  /\ UNCHANGED <<code, options, projectFiles, moduleResolutionCache, depContext,
                 suggestedImports, fullCode, installed, log, components, codeContext,
                 completion>>
  /\ UNCHANGED serviceVars

\* Steps 4 and 5: the rendering; its error, its rejection, or the success.
RenderRender ==
  /\ pc = "rendering"
  /\ \/ result' = PartialRenderResult(FALSE, <<"No component found to render">>,
                                      "<div class=\"error\">", completion.suggestions, Undefined)
     \/ result' = PartialRenderResult(FALSE, <<"window is not defined">>, Undefined, Undefined,
                                      Undefined)
     \/ result' = PartialRenderResult(TRUE, Undefined, "<div>", completion.suggestions,
                                      [i \in DOMAIN depContext.imports |-> depContext.imports[i].module])
  /\ pc' = "done"
  /\ UNCHANGED <<code, options, projectFiles, moduleResolutionCache, depContext,
                 suggestedImports, fullCode, installed, log, components, codeContext,
                 completion>>
  /\ UNCHANGED serviceVars

NextRender ==
  RenderCall \/ RenderInitialize \/ RenderAnalyze \/ RenderComplete \/ RenderCompile
    \/ RenderRender

SpecRender == InitRender /\ [][NextRender]_vars

(***************************************************************************)
(* PartialRenderer.renderMultiple: the loop over the snippets, around the  *)
(* steps of renderPartial.                                                 *)
(***************************************************************************)
MaxSnippets == 2

SnippetNames == {"Header", "Footer"}
Snippets == [code : RenderFragments, name : SnippetNames]
SnippetLists == UNION {[1..n -> Snippets] : n \in 0..MaxSnippets}

\* The snippets whose rendering has started, and those whose result is in
\* the map, as the log tells.
Started == SelectSeq(log, LAMBDA e : e.op = "renderPartial")
Recorded == SelectSeq(log, LAMBDA e : e.op = "results.set")

InitBatch ==
  /\ pc = "idle"
  /\ code = <<>>
  /\ options \in [enableAI : BOOLEAN, mockProps : {NoMockProps}]
  /\ projectFiles = <<>>
  /\ moduleResolutionCache = EmptyMap
  /\ depContext = NoContext
  /\ suggestedImports = <<>>
  /\ fullCode = NoFullCode
  /\ installed = {"react"}
  /\ log = <<>>
  /\ components = <<>>
  /\ codeContext = Undefined
  /\ completion = NoCompletion
  /\ result = NoResult
  /\ codeSnippets \in SnippetLists
  /\ results = <<>>
  /\ calls = <<>>
  /\ previewServer = Undefined
  /\ servers = <<>>
  /\ completerCache = <<>>
  /\ logs = <<>>

\* The loop takes the next snippet and calls renderPartial on its code.
BatchRenderNext ==
  /\ pc = "idle"
  /\ Len(Started) < Len(codeSnippets)
  /\ LET i == Len(Started) + 1
     IN /\ code' = codeSnippets[i].code
        /\ log' = Append(log, [op |-> "renderPartial", index |-> i, returned |-> NoResult])
  /\ result' = NoResult
  /\ pc' = IF codeContext = Undefined THEN "initializing" ELSE "analyzing"
  /\ UNCHANGED <<options, projectFiles, moduleResolutionCache, depContext, suggestedImports,
                 fullCode, installed, components, codeContext, completion>>
  /\ UNCHANGED serviceVars

\* renderPartial has returned: results.set(snippet.name, result).
BatchRecord ==
  /\ pc = "done"
  /\ result.kind = "fulfilled"
  /\ LET i == Len(Started)
     IN /\ results' = MapSet(results, codeSnippets[i].name, result)
        /\ log' = Append(log, [op |-> "results.set", index |-> i, returned |-> result])
  /\ pc' = "idle"
  /\ UNCHANGED <<code, options, projectFiles, moduleResolutionCache, depContext,
                 suggestedImports, fullCode, installed, components, codeContext, completion,
                 result>>
  /\ UNCHANGED <<codeSnippets, calls, previewServer, servers, completerCache, logs>>

\* renderPartial has rejected: the await throws and renderMultiple rejects.
BatchReject ==
  /\ pc = "done"
  /\ result.kind = "rejected"
  /\ pc' = "batch-rejected"
  /\ UNCHANGED <<code, options, projectFiles, moduleResolutionCache, depContext,
                 suggestedImports, fullCode, installed, log, components, codeContext,
                 completion, result>>
  /\ UNCHANGED serviceVars

\* The loop is over: return results.
BatchReturn ==
  /\ pc = "idle"
  /\ Len(Started) = Len(codeSnippets)
  /\ pc' = "batch-returned"
  /\ UNCHANGED <<code, options, projectFiles, moduleResolutionCache, depContext,
                 suggestedImports, fullCode, installed, log, components, codeContext,
                 completion, result>>
  /\ UNCHANGED serviceVars

NextBatch ==
  BatchRenderNext \/ RenderInitialize \/ RenderAnalyze \/ RenderComplete \/ RenderCompile
    \/ RenderRender \/ BatchRecord \/ BatchReject \/ BatchReturn

SpecBatch == InitBatch /\ [][NextBatch]_vars

(***************************************************************************)
(* CodeScanner.scanProject: one glob per pattern, one read per match.      *)
(***************************************************************************)
\* A file on disk under the project root: its directories, its base name and
\* its extension, and whether readFile succeeds on it.
DiskFile(dir, base, ext, readable) ==
  [dir |-> dir, base |-> base, ext |-> ext, readable |-> readable]

DiskFiles ==
  {DiskFile(<<"src">>, "App", "tsx", TRUE),
   DiskFile(<<"src">>, "locked", "ts", FALSE),
   DiskFile(<<"node_modules", "react">>, "index", "js", TRUE),
   DiskFile(<<"!dist">>, "gen", "ts", TRUE),
   DiskFile(<<".git">>, "hook", "js", TRUE),
   DiskFile(<<>>, "README", "md", TRUE)}

AnyExtension == {file.ext : file \in DiskFiles}

\* The patterns of scanProjectFiles, in order.  glob takes a leading '!' as
\* an ordinary character: '!dist/**' names the files under a directory
\* called '!dist'.
patterns ==
  <<[dir |-> Undefined,       exts |-> {"ts", "tsx", "js", "jsx"}],
    [dir |-> "!node_modules", exts |-> AnyExtension],
    [dir |-> "!dist",         exts |-> AnyExtension],
    [dir |-> "!build",        exts |-> AnyExtension],
    [dir |-> "!coverage",     exts |-> AnyExtension],
    [dir |-> "!.git",         exts |-> AnyExtension]>>

DotSegments == {".git"}

\* Whether glob(pattern) returns the file: '**' and '*' match no segment
\* that starts with a dot.
Matches(pattern, file) ==
  /\ \A k \in DOMAIN file.dir :
       file.dir[k] \in DotSegments => (k = 1 /\ pattern.dir = file.dir[k])
  /\ pattern.dir # Undefined => (file.dir # <<>> /\ file.dir[1] = pattern.dir)
  /\ file.ext \in pattern.exts

\* The elements of a set in some order, as glob returns its matches.
RECURSIVE SetToSeq(_)
SetToSeq(S) ==
  IF S = {} THEN <<>>
  ELSE LET x == CHOOSE y \in S : TRUE IN <<x>> \o SetToSeq(S \ {x})

glob(pattern, disk) == SetToSeq({file \in disk : Matches(pattern, file)})

getFileType(file) ==
  CASE file.ext = "tsx" -> "tsx"
    [] file.ext = "ts" -> "ts"
    [] file.ext = "jsx" -> "jsx"
    [] file.ext = "js" -> "js"
    [] file.ext = "json" -> "json"
    [] OTHER -> "other"

\* path.relative(projectRoot, filePath), as its segments.
RelativePath(file) == file.dir \o <<file.base, file.ext>>

\* The inner loop: a ProjectFile for every match that can be read.
ReadMatches(matchedFiles) ==
  LET read == SelectSeq(matchedFiles, LAMBDA file : file.readable)
  IN [k \in DOMAIN read |->
        [path |-> RelativePath(read[k]), content |-> <<"content of", read[k].base>>,
         type |-> getFileType(read[k])]]

InitScan ==
  /\ pc = "idle"
  /\ code = <<>>
  /\ options = [mockProps |-> NoMockProps, wrapComponent |-> Undefined,
                additionalImports |-> <<>>, filePath |-> Undefined]
  /\ projectFiles = <<>>
  /\ moduleResolutionCache = EmptyMap
  /\ depContext = NoContext
  /\ suggestedImports = <<>>
  /\ fullCode = NoFullCode
  /\ installed \in SUBSET DiskFiles
  /\ log = <<>>
  /\ components = <<>>
  /\ codeContext = Undefined
  /\ completion = NoCompletion
  /\ result = NoResult
  /\ NoServices

\* scanProject is called: scanProjectFiles starts with an empty list.
ScanStart ==
  /\ pc = "idle"
  /\ pc' = "scanning"
  /\ projectFiles' = <<>>
  /\ UNCHANGED <<code, options, moduleResolutionCache, depContext, suggestedImports, fullCode,
                 installed, log, components, codeContext, completion, result>>
  /\ UNCHANGED serviceVars

\* One turn of the outer loop: the glob of the next pattern and the reads of
\* its matches; the log keeps what each glob returned.
ScanPattern ==
  /\ pc = "scanning"
  /\ Len(log) < Len(patterns)
  /\ LET matchedFiles == glob(patterns[Len(log) + 1], installed)
     IN /\ projectFiles' = projectFiles \o ReadMatches(matchedFiles)
        /\ log' = Append(log, matchedFiles)
  /\ UNCHANGED <<pc, code, options, moduleResolutionCache, depContext, suggestedImports,
                 fullCode, installed, components, codeContext, completion, result>>
  /\ UNCHANGED serviceVars

\* The loop is over: scanProject returns the code context.
ScanReturn ==
  /\ pc = "scanning"
  /\ Len(log) = Len(patterns)
  /\ pc' = "scanned"
  /\ codeContext' = "scanned"
  /\ result' = Fulfilled(projectFiles)
  /\ UNCHANGED <<code, options, projectFiles, moduleResolutionCache, depContext,
                 suggestedImports, fullCode, installed, log, components, completion>>
  /\ UNCHANGED serviceVars

NextScan == ScanStart \/ ScanPattern \/ ScanReturn

SpecScan == InitScan /\ [][NextScan]_vars

(***************************************************************************)
(* Executor: the sandbox made by the constructor and the calls of           *)
(* executeCode on one instance.                                            *)
(***************************************************************************)
\* A statement of compiled code: a call of a console method with its
\* arguments, or a throw.
ConsoleCall(method, args) == [kind |-> "console", method |-> method, args |-> args]
Throw(message) == [kind |-> "throw", method |-> Undefined, args |-> <<message>>]

CompiledPrograms ==
  {<<>>,
   <<ConsoleCall("log", <<"mounted">>)>>,
   <<ConsoleCall("log", <<"render", "1">>), ConsoleCall("log", <<"render", "2">>)>>,
   <<ConsoleCall("warn", <<"deprecated", "prop">>), ConsoleCall("error", <<"boom">>)>>,
   <<ConsoleCall("log", <<"before">>), Throw("failed"), ConsoleCall("log", <<"after">>)>>}

\* The text of a statement, as tokens.
StatementText(st) ==
  IF st.kind = "console"
  THEN <<"console", ".", st.method, "(">> \o st.args \o <<")", ";">>
  ELSE <<"throw", "new", "Error", "(">> \o st.args \o <<")", ";">>

\* The source that runInSandbox hands to vm.run.
wrappedCode(compiledCode, strictMode) ==
  <<"(", "function", "(", ")", "{">>
  \o (IF strictMode THEN <<"'use strict'", ";">> ELSE <<>>)
  \o Flatten([k \in DOMAIN compiledCode |-> StatementText(compiledCode[k])])
  \o <<"if", "(", "typeof", "module", "!==", "'undefined'", "&&", "module", ".", "exports", ")",
       "{", "return", "module", ".", "exports", ";", "}",
       "const", "possibleExports", "=", "[",
       "typeof", "App", "!==", "'undefined'", "?", "App", ":", "null", ",",
       "typeof", "Component", "!==", "'undefined'", "?", "Component", ":", "null", ",",
       "typeof", "default", "!==", "'undefined'", "?", "default", ":", "null",
       "]", ".", "filter", "(", "Boolean", ")", ";",
       "return", "possibleExports", "[", "0", "]", "||", "null", ";",
       "}", ")", "(", ")", ";">>

\* A script parses only if no reserved word stands where an expression is
\* expected: `typeof default` is a SyntaxError.
ReservedWords == {"default"}
SyntaxErrors(text) ==
  {i \in DOMAIN text : text[i] \in ReservedWords /\ i > 1 /\ text[i - 1] \in {"typeof", "?"}}

\* The line a console method of the sandbox pushes.
ConsoleLine(st) ==
  (IF st.method = "error" THEN <<"ERROR: ">>
   ELSE IF st.method = "warn" THEN <<"WARN: ">> ELSE <<>>)
  \o JoinWith([k \in DOMAIN st.args |-> <<st.args[k]>>], <<" ">>)

\* The statements that run: those before the first throw.
RECURSIVE RunPrefix(_)
RunPrefix(compiledCode) ==
  IF compiledCode = <<>> \/ compiledCode[1].kind = "throw" THEN <<>>
  ELSE <<compiledCode[1]>> \o RunPrefix(Tail(compiledCode))

\* The lines that compiled code writes through the console when it runs.
ConsoleLines(compiledCode) ==
  [k \in DOMAIN RunPrefix(compiledCode) |-> ConsoleLine(RunPrefix(compiledCode)[k])]

\* runInSandbox: vm.run compiles the wrapped source and runs it in the
\* sandbox of the constructor, whose console pushes to the array `logs` of
\* createSandbox.  [thrown, value, sandboxLogs]
runInSandbox(compiledCode, strictMode, sandboxLogs) ==
  IF SyntaxErrors(wrappedCode(compiledCode, strictMode)) # {}
  THEN [thrown |-> <<"Unexpected token 'default'">>, value |-> Undefined,
        sandboxLogs |-> sandboxLogs]
  ELSE IF \E k \in DOMAIN compiledCode : compiledCode[k].kind = "throw"
  THEN [thrown |-> compiledCode[Len(RunPrefix(compiledCode)) + 1].args,
        value |-> Undefined,
        sandboxLogs |-> sandboxLogs \o ConsoleLines(compiledCode)]
  ELSE [thrown |-> <<>>, value |-> "null",
        sandboxLogs |-> sandboxLogs \o ConsoleLines(compiledCode)]

\* executeCode: its own array `logs` is handed to runInSandbox, which never
\* writes to it.  [result, sandboxLogs]
executeCode(compiledCode, opts, sandboxLogs) ==
  LET localLogs == <<>>
      run == runInSandbox(compiledCode, opts.strictMode, sandboxLogs)
  IN [result |->
        IF run.thrown = <<>>
        THEN [kind |-> "fulfilled", success |-> TRUE, output |-> run.value, error |-> <<>>,
              logs |-> IF opts.enableLogs THEN localLogs ELSE <<>>]
        ELSE [kind |-> "fulfilled", success |-> FALSE, output |-> Undefined,
              error |-> run.thrown,
              logs |-> IF opts.enableLogs THEN localLogs ELSE <<>>],
      sandboxLogs |-> run.sandboxLogs]

InitExecutor ==
  /\ pc = "idle"
  /\ code = <<>>
  /\ options \in [enableLogs : BOOLEAN, strictMode : BOOLEAN]
  /\ projectFiles = <<>>
  /\ moduleResolutionCache = EmptyMap
  /\ depContext = NoContext
  /\ suggestedImports = <<>>
  /\ fullCode = NoFullCode
  /\ installed = {"react"}
  /\ log = <<>>
  /\ components = <<>>
  /\ codeContext = Undefined
  /\ completion = NoCompletion
  /\ result = NoResult
  /\ NoServices

\* await executor.executeCode(compiledCode)
ExecuteCode ==
  /\ Len(log) < MaxCalls
  /\ \E compiledCode \in CompiledPrograms :
       LET r == executeCode(compiledCode, options, logs)
       IN /\ code' = compiledCode
          /\ result' = r.result
          /\ logs' = r.sandboxLogs
          /\ log' = Append(log, [op |-> "executeCode", code |-> compiledCode,
                                 returned |-> r.result])
  /\ pc' = "executed"
  /\ UNCHANGED <<options, projectFiles, moduleResolutionCache, depContext, suggestedImports,
                 fullCode, installed, components, codeContext, completion>>
  /\ UNCHANGED <<codeSnippets, results, calls, previewServer, servers, completerCache>>

NextExecutor == ExecuteCode

SpecExecutor == InitExecutor /\ [][NextExecutor]_vars

(***************************************************************************)
(* PartRender: the calls in progress on one instance, one action per       *)
(* stretch of a call between two awaits.  A code context and a catalog are *)
(* named by the scan they come from; 0 stands for null, and for the empty  *)
(* catalog of the constructor.                                             *)
(***************************************************************************)
Null == 0

PartRenderOps ==
  {"initialize", "refreshContext", "renderJSX", "validateJSX", "startPreviewServer",
   "stopPreviewServer"}
LazyOps == {"renderJSX", "validateJSX"}

\* A call: its method, its position, the scan, the server and the code
\* context it works with, whether another call was in progress when it
\* started, the compilation result, the code given to the executor, and what
\* it returned.
NewCall(op) ==
  [op |-> op, pc |-> "called", scan |-> Null, server |-> Null, ctx |-> Null,
   concurrent |-> \E j \in DOMAIN calls : calls[j].pc # "done",
   compiled |-> NoResult, executed |-> Undefined, returned |-> NoResult]

\* A LivePreviewServer with the catalog and the context it holds.
Server(state, held, context) == [state |-> state, components |-> held, codeContext |-> context]

ScansStarted == SelectSeq(log, LAMBDA e : e.op = "scanProject")

InitPartRender ==
  /\ pc = "idle"
  /\ code = <<>>
  /\ options = [enableLogs |-> TRUE, strictMode |-> FALSE]
  /\ projectFiles = <<>>
  /\ moduleResolutionCache = EmptyMap
  /\ depContext = NoContext
  /\ suggestedImports = <<>>
  /\ fullCode = NoFullCode
  /\ installed = {"react"}
  /\ log = <<>>
  /\ components = Null
  /\ codeContext = Null
  /\ completion = NoCompletion
  /\ result = NoResult
  /\ codeSnippets = <<>>
  /\ results = <<>>
  /\ calls = <<>>
  /\ previewServer = Null
  /\ servers = <<>>
  /\ completerCache = <<>>
  /\ logs = <<>>

\* this.initialize() is entered: scanner.scanProject() is called and awaited.
StartScan(cs, i) ==
  /\ calls' = [cs EXCEPT ![i].pc = "scanning", ![i].scan = Len(ScansStarted) + 1]
  /\ log' = Append(log, [op |-> "scanProject", call |-> i])
  /\ UNCHANGED <<servers, previewServer>>

\* The call goes on with a code context at hand, up to its next await.
Proceed(cs, i) ==
  CASE cs[i].op \in LazyOps ->
         /\ IF codeContext = Null
            THEN calls' = [cs EXCEPT ![i].pc = "done",
                             ![i].returned = RejectedWith(<<"Failed to initialize code context">>)]
            ELSE calls' = [cs EXCEPT ![i].pc = "compiling", ![i].ctx = codeContext]
         /\ UNCHANGED <<servers, previewServer>>
    [] cs[i].op = "startPreviewServer" ->
         /\ servers' = Append(servers, Server("starting", components, codeContext))
         /\ previewServer' = Len(servers) + 1
         /\ calls' = [cs EXCEPT ![i].pc = "starting", ![i].server = Len(servers) + 1]
    [] cs[i].op = "refreshContext" ->
         /\ servers' = IF previewServer # Null /\ codeContext # Null
                       THEN [servers EXCEPT ![previewServer].components = components,
                                            ![previewServer].codeContext = codeContext]
                       ELSE servers
         /\ calls' = [cs EXCEPT ![i].pc = "done", ![i].returned = Fulfilled(Undefined)]
         /\ UNCHANGED previewServer
    [] OTHER ->
         /\ calls' = [cs EXCEPT ![i].pc = "done", ![i].returned = Fulfilled(Undefined)]
         /\ UNCHANGED <<servers, previewServer>>

\* A method of the instance is called and runs up to its first await.
PartRenderCall ==
  /\ Len(calls) < MaxCalls
  /\ \E op \in PartRenderOps :
       LET cs == Append(calls, NewCall(op))
           i == Len(calls) + 1
       IN CASE op \in {"initialize", "refreshContext"} -> StartScan(cs, i)
            [] op = "stopPreviewServer" ->
                 /\ IF previewServer = Null
                    THEN calls' = [cs EXCEPT ![i].pc = "done", ![i].returned = Fulfilled(Undefined)]
                    ELSE calls' = [cs EXCEPT ![i].pc = "stopping", ![i].server = previewServer]
                 /\ UNCHANGED <<servers, previewServer, log>>
            [] OTHER ->
                 IF codeContext = Null
                 THEN StartScan(cs, i)
                 ELSE Proceed(cs, i) /\ UNCHANGED log
  /\ UNCHANGED <<pc, code, options, projectFiles, moduleResolutionCache, depContext,
                 suggestedImports, fullCode, installed, components, codeContext, completion,
                 result, codeSnippets, results, completerCache, logs>>

\* scanProject settles and initialize runs to its end: the scan rejects; or
\* the context is assigned and the constructor of ComponentDetector throws
\* (readdirSync on a directory it may not read); or the catalog is assigned.
InitializeSettles ==
  \E i \in DOMAIN calls :
    /\ calls[i].pc = "scanning"
    /\ \/ /\ calls' = [calls EXCEPT ![i].pc = "done",
                         ![i].returned = RejectedWith(<<"EACCES: permission denied, scandir">>)]
          /\ UNCHANGED <<codeContext, components, log>>
       \/ /\ codeContext' = calls[i].scan
          /\ calls' = [calls EXCEPT ![i].pc = "done",
                         ![i].returned = RejectedWith(<<"EACCES: permission denied, scandir">>)]
          /\ log' = Append(log, [op |-> "ComponentDetector", call |-> i])
          /\ UNCHANGED components
       \/ /\ codeContext' = calls[i].scan
          /\ components' = calls[i].scan
          /\ calls' = [calls EXCEPT ![i].pc = "initialized"]
          /\ UNCHANGED log
    /\ UNCHANGED <<pc, code, options, projectFiles, moduleResolutionCache, depContext,
                   suggestedImports, fullCode, installed, completion, result, codeSnippets,
                   results, previewServer, servers, completerCache, logs>>

\* The caller of initialize resumes after its await.
AfterInitialize ==
  \E i \in DOMAIN calls :
    /\ calls[i].pc = "initialized"
    /\ Proceed(calls, i)
    /\ UNCHANGED <<pc, code, options, projectFiles, moduleResolutionCache, depContext,
                   suggestedImports, fullCode, installed, log, components, codeContext,
                   completion, result, codeSnippets, results, completerCache, logs>>

\* renderJSX's test of the compilation result.
CompilationFailed_SuccessFlagOnly(compilationResult) == ~compilationResult.success

CompilationFailed(compilationResult) ==
  ~compilationResult.success \/ compilationResult.code = Undefined

\* compilationResult.error || 'Compilation failed'
ErrorOrDefault(error) ==
  IF error = Undefined THEN <<"Compilation failed">>
  ELSE IF error = <<>> THEN <<"Compilation failed">> ELSE error

\* The program that an output file holds.
ProgramOf(text) == <<ConsoleCall("log", <<"mounted">>)>>

\* The compilation settles.  renderJSX returns the failure or hands the code
\* to the executor; validateJSX returns the verdict of the transform.
CompileSettles ==
  \E i \in DOMAIN calls :
    /\ calls[i].pc = "compiling"
    /\ IF calls[i].op = "validateJSX"
       THEN \E valid \in BOOLEAN :
              calls' = [calls EXCEPT ![i].pc = "done", ![i].returned = Fulfilled(valid)]
       ELSE \E outcome \in BuildOutcomes(<<>>, EmptyMap) :
              LET compilationResult == ResultOfSnippetBuild(outcome)
              IN IF CompilationFailed(compilationResult)
                 THEN calls' = [calls EXCEPT ![i].pc = "done", ![i].compiled = compilationResult,
                                  ![i].returned =
                                     [kind |-> "fulfilled", success |-> FALSE, output |-> Undefined,
                                      error |-> ErrorOrDefault(compilationResult.error),
                                      logs |-> Undefined]]
                 ELSE calls' = [calls EXCEPT ![i].pc = "executing", ![i].compiled = compilationResult,
                                  ![i].executed = compilationResult.code]
    /\ UNCHANGED <<pc, code, options, projectFiles, moduleResolutionCache, depContext,
                   suggestedImports, fullCode, installed, log, components, codeContext,
                   completion, result, codeSnippets, results, previewServer, servers,
                   completerCache, logs>>

\* SimpleExecutor.executeCode, the executor of createExecutor's catch.
simpleExecuteCode(compiledCode, opts) ==
  IF \E k \in DOMAIN compiledCode : compiledCode[k].kind = "throw"
  THEN [kind |-> "fulfilled", success |-> FALSE, output |-> Undefined,
        error |-> compiledCode[Len(RunPrefix(compiledCode)) + 1].args,
        logs |-> IF opts.enableLogs THEN ConsoleLines(compiledCode) ELSE <<>>]
  ELSE [kind |-> "fulfilled", success |-> TRUE, output |-> "exports", error |-> <<>>,
        logs |-> IF opts.enableLogs THEN ConsoleLines(compiledCode) ELSE <<>>]

\* executor.executeCode settles, for either executor of createExecutor.
ExecuteSettles ==
  \E i \in DOMAIN calls :
    /\ calls[i].pc = "executing"
    /\ \/ calls' = [calls EXCEPT ![i].pc = "done",
                      ![i].returned = executeCode(ProgramOf(calls[i].executed), options, <<>>).result]
       \/ calls' = [calls EXCEPT ![i].pc = "done",
                      ![i].returned = simpleExecuteCode(ProgramOf(calls[i].executed), options)]
    /\ UNCHANGED <<pc, code, options, projectFiles, moduleResolutionCache, depContext,
                   suggestedImports, fullCode, installed, log, components, codeContext,
                   completion, result, codeSnippets, results, previewServer, servers,
                   completerCache, logs>>

\* LivePreviewServer.start settles: the server listens, or start rejects.
ServerStartSettles ==
  \E i \in DOMAIN calls :
    /\ calls[i].pc = "starting"
    /\ \/ /\ servers' = [servers EXCEPT ![calls[i].server].state = "listening"]
          /\ calls' = [calls EXCEPT ![i].pc = "done", ![i].returned = Fulfilled(Undefined)]
       \/ /\ servers' = [servers EXCEPT ![calls[i].server].state = "failed"]
          /\ calls' = [calls EXCEPT ![i].pc = "done",
                         ![i].returned = RejectedWith(<<"listen EACCES">>)]
    /\ UNCHANGED <<pc, code, options, projectFiles, moduleResolutionCache, depContext,
                   suggestedImports, fullCode, installed, log, components, codeContext,
                   completion, result, codeSnippets, results, previewServer, completerCache,
                   logs>>

\* LivePreviewServer.stop settles: a server that has its vite server is
\* closed, one that is still starting is left alone; then
\* this.previewServer = null.
ServerStopSettles ==
  \E i \in DOMAIN calls :
    /\ calls[i].pc = "stopping"
    /\ servers' = IF servers[calls[i].server].state = "listening"
                  THEN [servers EXCEPT ![calls[i].server].state = "closed"]
                  ELSE servers
    /\ previewServer' = Null
    /\ calls' = [calls EXCEPT ![i].pc = "done", ![i].returned = Fulfilled(Undefined)]
    /\ UNCHANGED <<pc, code, options, projectFiles, moduleResolutionCache, depContext,
                   suggestedImports, fullCode, installed, log, components, codeContext,
                   completion, result, codeSnippets, results, completerCache, logs>>

NextPartRender ==
  PartRenderCall \/ InitializeSettles \/ AfterInitialize \/ CompileSettles \/ ExecuteSettles
    \/ ServerStartSettles \/ ServerStopSettles

SpecPartRender == InitPartRender /\ [][NextPartRender]_vars

(***************************************************************************)
(* CodeCompleter: the calls of completePartialCode in progress on one      *)
(* instance, and clearCache.                                               *)
(***************************************************************************)
MaxClears == 1

\* The contexts of the calls: the code and the missing identifiers in the
\* order of the set.
CompletionContexts ==
  {[code |-> <<"function", "Greet">>, missing |-> <<"useState", "el">>],
   [code |-> <<"function", "Greet">>, missing |-> <<"el", "useState">>],
   [code |-> <<"class", "Panel">>, missing |-> <<"el">>]}

\* Array.prototype.sort on the identifiers of the model.
SortRank == ("el" :> 1) @@ ("useState" :> 2)
Sort(ids) ==
  LET ranks == {SortRank[ids[k]] : k \in DOMAIN ids}
      nth(n) == CHOOSE id \in Range(ids) :
                  Cardinality({r \in ranks : r < SortRank[id]}) = n - 1
  IN [n \in 1..Cardinality(ranks) |-> nth(n)]

\* getCacheKey: `${context.code}:${sorted missing identifiers joined by ','}`
getCacheKey(context) == <<context.code, ":", Sort(context.missing)>>

\* What aiProvider.generateCode can answer: code, an empty answer, a
\* failure; or the call throws.
ProviderResponses ==
  {[kind |-> "resolved", success |-> TRUE, data |-> <<"import", "el", "function", "Greet", "export">>],
   [kind |-> "resolved", success |-> TRUE, data |-> <<"Here", "[fence jsx]", "function", "Greet", "[fence]">>],
   [kind |-> "resolved", success |-> TRUE, data |-> <<>>],
   [kind |-> "resolved", success |-> FALSE, data |-> <<>>],
   [kind |-> "rejected", success |-> FALSE, data |-> <<>>]}

\* evaluateCompletion, in tenths.
evaluateCompletion(completedCode, context) ==
  LET resolvedCount == Cardinality({id \in Range(context.missing) : id \in Range(completedCode)})
      confidence == 5 + (IF "import" \in Range(completedCode) THEN 1 ELSE 0)
                      + (IF "export" \in Range(completedCode) THEN 1 ELSE 0)
                      + (resolvedCount * 3) \div Cardinality(Range(context.missing))
  IN IF confidence < 10 THEN confidence ELSE 10

generateSuggestions(context) ==
  (IF "useState" \in Range(context.missing)
   THEN <<"Consider initializing state with default values">> ELSE <<>>)
  \o (IF "useEffect" \in Range(context.missing)
      THEN <<"Add cleanup function to useEffect if needed">> ELSE <<>>)
  \o (IF "try" \notin Range(context.code)
      THEN <<"Add error handling for robust component behavior">> ELSE <<>>)

\* parseAIResponse: the code between the first pair of fences when the answer
\* has one, the whole answer otherwise.
parseAIResponse(response, context) ==
  LET opens == {k \in DOMAIN response : response[k] = "[fence jsx]"}
      closes(k) == {l \in DOMAIN response : l > k /\ response[l] = "[fence]"}
      fenced == {k \in opens : closes(k) # {}}
      open == CHOOSE k \in fenced : \A m \in fenced : k <= m
      close == CHOOSE l \in closes(open) : \A m \in closes(open) : l <= m
      completedCode == IF fenced # {} THEN SubSeq(response, open + 1, close - 1) ELSE response
  IN [completedCode |-> completedCode, suggestions |-> generateSuggestions(context),
      confidence |-> evaluateCompletion(completedCode, context)]

\* generateFallbackImports: React, and the hooks among the missing
\* identifiers.
generateFallbackImports(context) ==
  <<"import", "React">>
  \o (IF "useState" \in Range(context.missing) THEN <<"import", "useState">> ELSE <<>>)

\* generateComponentWrapper: a default export of the first declared name,
\* unless the code exports already.
generateComponentWrapper(context) ==
  IF "export" \in Range(context.code) THEN <<>> ELSE <<"export", "default", context.code[2]>>

getFallbackCompletion(context) ==
  [completedCode |-> generateFallbackImports(context) \o context.code
                       \o generateComponentWrapper(context),
   suggestions |-> <<"Add props validation", "Consider adding error boundaries",
                     "Add loading states if async operations exist">>,
   confidence |-> 5]

\* The result field of a call that has not returned yet.
NotReturned == [completedCode |-> <<>>, suggestions |-> <<>>, confidence |-> 0]

InitCompleter ==
  /\ pc = "idle"
  /\ code = <<>>
  /\ options = [mockProps |-> NoMockProps, wrapComponent |-> Undefined,
                additionalImports |-> <<>>, filePath |-> Undefined]
  /\ projectFiles = <<>>
  /\ moduleResolutionCache = EmptyMap
  /\ depContext = NoContext
  /\ suggestedImports = <<>>
  /\ fullCode = NoFullCode
  /\ installed = {"react"}
  /\ log = <<>>
  /\ components = <<>>
  /\ codeContext = Undefined
  /\ completion = NoCompletion
  /\ result = NoResult
  /\ codeSnippets = <<>>
  /\ results = <<>>
  /\ calls = <<>>
  /\ previewServer = Undefined
  /\ servers = <<>>
  /\ completerCache = EmptyMap
  /\ logs = <<>>

\* completePartialCode is called: a cached key returns at once, any other
\* key sends the prompt to the provider and awaits the answer.
CompleterCall ==
  /\ Len(calls) < MaxCalls
  /\ \E context \in CompletionContexts :
       LET cacheKey == getCacheKey(context)
           i == Len(calls) + 1
       IN IF cacheKey \in DOMAIN completerCache
          THEN /\ calls' = Append(calls, [context |-> context, pc |-> "done", cached |-> TRUE,
                                          returned |-> completerCache[cacheKey]])
               /\ log' = Append(log, [op |-> "completePartialCode", call |-> i, key |-> cacheKey])
          ELSE /\ calls' = Append(calls, [context |-> context, pc |-> "awaiting", cached |-> FALSE,
                                          returned |-> NotReturned])
               /\ log' = log \o <<[op |-> "completePartialCode", call |-> i, key |-> cacheKey],
                                  [op |-> "generateCode", call |-> i, key |-> cacheKey]>>
  /\ UNCHANGED <<pc, code, options, projectFiles, moduleResolutionCache, depContext,
                 suggestedImports, fullCode, installed, components, codeContext, completion,
                 result, codeSnippets, results, previewServer, servers, completerCache, logs>>

\* The provider answers: the parsed result is stored and returned, or the
\* fallback is returned.
ProviderSettles ==
  \E i \in DOMAIN calls :
    /\ calls[i].pc = "awaiting"
    /\ \E response \in ProviderResponses :
         IF response.kind = "resolved" /\ response.success /\ response.data # <<>>
         THEN LET parsed == parseAIResponse(response.data, calls[i].context)
                  cacheKey == getCacheKey(calls[i].context)
              IN /\ completerCache' = (cacheKey :> parsed) @@ completerCache
                 /\ calls' = [calls EXCEPT ![i].pc = "done", ![i].returned = parsed]
                 /\ log' = Append(log, [op |-> "cache.set", call |-> i, key |-> cacheKey])
         ELSE /\ calls' = [calls EXCEPT ![i].pc = "done",
                             ![i].returned = getFallbackCompletion(calls[i].context)]
              /\ UNCHANGED <<completerCache, log>>
    /\ UNCHANGED <<pc, code, options, projectFiles, moduleResolutionCache, depContext,
                   suggestedImports, fullCode, installed, components, codeContext, completion,
                   result, codeSnippets, results, previewServer, servers, logs>>

\* clearCache()
ClearCache ==
  /\ Cardinality({k \in DOMAIN log : log[k].op = "clearCache"}) < MaxClears
  /\ completerCache' = EmptyMap
  /\ log' = Append(log, [op |-> "clearCache", call |-> 0, key |-> <<>>])
  /\ UNCHANGED <<pc, code, options, projectFiles, moduleResolutionCache, depContext,
                 suggestedImports, fullCode, installed, components, codeContext, completion,
                 result, codeSnippets, results, calls, previewServer, servers, logs>>

NextCompleter == CompleterCall \/ ProviderSettles \/ ClearCache

SpecCompleter == InitCompleter /\ [][NextCompleter]_vars

(***************************************************************************)
(* Properties.  The definitions below read the fragment and the assembled  *)
(* unit on their own, without the operators of the pipeline.               *)
(***************************************************************************)
Analyzed == pc \in {"analyzed", "suggested", "generated"}
Generated == pc = "generated"

NodesOf(stmts) == Visited(SourceFile(stmts), "")

\* The names that the fragment binds: import specifiers, parameters and
\* variable, function and class declarations.
BoundNames(stmts) ==
  LET nodes == NodesOf(stmts)
      binding == {k \in DOMAIN nodes :
        nodes[k].node.kind \in {"ImportClause", "NamespaceImport", "Parameter", "BindingElement",
                                "VariableDeclaration", "FunctionDeclaration", "ClassDeclaration"}}
      specifiers == {k \in DOMAIN nodes : nodes[k].node.kind = "ImportSpecifier"}
  IN ({NameOf(nodes[k].node) : k \in binding}
      \cup {nodes[k].node.children[Len(nodes[k].node.children)].text : k \in specifiers})
     \ {""}

\* The names that the fragment refers to: every identifier but the property
\* name of a member access.
ReferencedNames(stmts) ==
  LET nodes == NodesOf(stmts)
      identifiers == {k \in DOMAIN nodes : nodes[k].node.kind = "Identifier"}
      accesses == {k \in DOMAIN nodes : nodes[k].node.kind = "PropertyAccessExpression"}
  IN {nodes[k].node.text : k \in identifiers} \ {nodes[k].node.children[2].text : k \in accesses}

StandardBuiltins ==
  {"console", "window", "document", "process", "global",
   "Array", "Object", "String", "Number", "Boolean", "Date",
   "Promise", "Map", "Set", "Math", "JSON", "Error",
   "undefined", "null", "true", "false"}

HasExportStatement(stmts) ==
  \E v \in Range(NodesOf(stmts)) :
    v.node.kind \in {"ExportDeclaration", "ExportAssignment"} \/ "ExportKeyword" \in v.node.modifiers

HasExportDefault(stmts) ==
  \E v \in Range(NodesOf(stmts)) :
    v.node.kind = "ExportAssignment" \/ "DefaultKeyword" \in v.node.modifiers

\* The name of the first function, const or class declaration, "" if none.
FirstDeclName(stmts) ==
  LET nodes == NodesOf(stmts)
      nameAt(k) ==
        IF nodes[k].node.kind \in {"FunctionDeclaration", "ClassDeclaration"}
        THEN NameOf(nodes[k].node)
        ELSE IF nodes[k].node.kind = "VariableDeclarationList" /\ nodes[k].node.text = "const"
        THEN NameOf(nodes[k].node.children[1])
        ELSE ""
      named == {k \in DOMAIN nodes : nameAt(k) # ""}
  IN IF named = {} THEN "" ELSE nameAt(CHOOSE k \in named : \A m \in named : k <= m)

\* The import statements of a text: for each, <<module, specifier names>>.
ImportStatementAt(text, i) ==
  SubSeq(text, i, CHOOSE j \in i..Len(text) : text[j] = ";" /\ \A k \in i..(j - 1) : text[k] # ";")
ImportKeyOfStatement(st) ==
  LET from == CHOOSE j \in DOMAIN st : st[j] = "from" /\ \A k \in 1..(j - 1) : st[k] # "from"
      quote == CHOOSE j \in DOMAIN st : st[j] = "'" /\ \A k \in 1..(j - 1) : st[k] # "'"
      clause == SelectSeq(SubSeq(st, 2, from - 1), LAMBDA t : t \notin {" ", ",", "{", "}"})
      naming == SelectSeq([k \in DOMAIN clause |-> k], LAMBDA k :
                  /\ clause[k] \notin {"as", "*"}
                  /\ (At(clause, k - 1) = "as" => At(clause, k - 2) = "*"))
  IN <<st[quote + 1], [k \in DOMAIN naming |-> clause[naming[k]]]>>
ImportKeysOfText(text) ==
  LET starts == SelectSeq([i \in DOMAIN text |-> i], LAMBDA i : text[i] = "import")
  IN [k \in DOMAIN starts |-> ImportKeyOfStatement(ImportStatementAt(text, starts[k]))]
Occurrences(text, pattern) ==
  Cardinality({i \in 1..Len(text) : \A j \in DOMAIN pattern : At(text, i + j - 1) = pattern[j]})
CountOf(s, x) == Cardinality({k \in DOMAIN s : s[k] = x})

GreetExample ==
  <<FunctionDecl("", "Greet", <<DestructuredParam("name")>>,
      <<Return(Call(Ref("el"), <<StringLit("div"), NullLit, Ref("name")>>))>>)>>

\* C1: every DependencyContext returned by analyzeDependencies has
\* missingIdentifiers within usedIdentifiers and free of the builtin names.
C1_MissingWithinUsedNoBuiltin ==
  Analyzed =>
    /\ Range(depContext.missingIdentifiers) \subseteq Range(depContext.usedIdentifiers)
    /\ Range(depContext.missingIdentifiers) \cap StandardBuiltins = {}

\* C1 witness: an analysis whose fragment uses a builtin name and has a missing name.
C1_Witness ==
  /\ Analyzed
  /\ "String" \in Range(depContext.usedIdentifiers)
  /\ depContext.missingIdentifiers # <<>>

\* C2, as claimed: a name that the fragment itself binds (import specifier,
\* parameter, declaration) is never reported missing, nothing is suggested when
\* every referenced name is bound, and the Greet example misses exactly el.
C2_BoundNamesNeverMissing ==
  /\ Analyzed => BoundNames(code) \cap Range(depContext.missingIdentifiers) = {}
  /\ (Analyzed /\ code = GreetExample) => Range(depContext.missingIdentifiers) = {"el"}
  /\ (pc \in {"suggested", "generated"}
      /\ ReferencedNames(code) \subseteq BoundNames(code) \cup StandardBuiltins)
       => suggestedImports = <<>>

\* C3, as claimed: an import of additionalImports that the fragment already
\* has (same module, same specifier names) is in the assembled unit exactly once.
C3_MergedImportOnce ==
  Generated =>
    \A i \in DOMAIN options.additionalImports :
      (\E j \in DOMAIN depContext.imports :
          ImportKey(depContext.imports[j]) = ImportKey(options.additionalImports[i]))
        => CountOf(ImportKeysOfText(fullCode.text), ImportKey(options.additionalImports[i])) = 1

\* C4, as claimed: for a fragment that has all its imports and an export
\* default, the unit has as many import statements as the fragment, plus one
\* for the React default import when the fragment has none.
C4_ImportCount ==
  (/\ Generated
   /\ options.additionalImports = <<>>
   /\ HasExportDefault(code)
   /\ ReferencedNames(code) \subseteq BoundNames(code) \cup StandardBuiltins)
    => Len(ImportKeysOfText(fullCode.text))
         = Len(ImportKeysOfText(SourceText(code)))
           + (IF \E v \in Range(NodesOf(code)) :
                   v.node.kind = "ImportClause" /\ NameOf(v.node) = "React"
              THEN 0 ELSE 1)

\* C5, as claimed: imports of one module whose specifier names form the same
\* set, in whatever order, are one entry of the merged imports.
C5_OrderInsensitiveKey ==
  Generated =>
    \A i, j \in DOMAIN fullCode.allImports :
      (/\ fullCode.allImports[i].value.module = fullCode.allImports[j].value.module
       /\ Range(ImportKey(fullCode.allImports[i].value)[2])
            = Range(ImportKey(fullCode.allImports[j].value)[2]))
        => i = j

\* C6, as claimed: of the imports with one merge key, the merged set keeps the
\* first in the order fragment, suggested, additional.
C6_EarlierSourceKept ==
  Generated =>
    LET sources == depContext.imports \o suggestedImports \o options.additionalImports
    IN \A k \in DOMAIN sources :
         (\A m \in 1..(k - 1) : ImportKey(sources[m]) # ImportKey(sources[k]))
           => \E e \in Range(fullCode.allImports) : e.value = sources[k]

\* C7: the merged imports of every assembly contain an import of 'react' with
\* a default specifier named React.
C7_ReactAlwaysImported ==
  Generated =>
    \E e \in Range(fullCode.allImports) :
      /\ e.value.module = "react"
      /\ \E sp \in Range(e.value.specifiers) : sp.isDefault /\ sp.name = "React"

\* C7 witness: an assembly whose sources import from 'react' without the
\* default specifier React.
C7_Witness ==
  /\ Generated
  /\ \E imp \in Range(depContext.imports) : imp.module = "react"
  /\ \A imp \in Range(depContext.imports \o suggestedImports \o options.additionalImports) :
       \A sp \in Range(imp.specifiers) : ~(sp.isDefault /\ sp.name = "React")

C9_ExportDefaultNeverWrapped ==
  (Generated /\ HasExportDefault(code)) =>
    /\ "PreviewWrapper" \notin Range(fullCode.text)
    /\ \A m \in MockPropsChoices : wrapComponentCode(SourceText(code), m) = SourceText(code)

\* C9 witness: an assembly of a fragment with `export default X` and no other
\* export form, with mockProps and wrapping requested.
C9_Witness ==
  /\ Generated
  /\ \E v \in Range(NodesOf(code)) : v.node.kind = "ExportAssignment"
  /\ \A v \in Range(NodesOf(code)) : v.node.kind # "ExportDeclaration"
  /\ options.mockProps.given
  /\ options.wrapComponent = Undefined

ModuleOfStatement(st) ==
  st[(CHOOSE j \in DOMAIN st : st[j] = "'" /\ \A k \in 1..(j - 1) : st[k] # "'") + 1]
BindingsOfStatement(st) ==
  LET from == CHOOSE j \in DOMAIN st : st[j] = "from" /\ \A k \in 1..(j - 1) : st[k] # "from"
      clause == SelectSeq(SubSeq(st, 2, from - 1), LAMBDA t : t \notin {" ", ","})
      defaults ==
        IF clause # <<>> /\ clause[1] \notin {"{", "*"}
        THEN {<<"default", "default", clause[1]>>} ELSE {}
      namespaces == {<<"namespace", "*", clause[k + 2]>> : k \in {j \in DOMAIN clause : clause[j] = "*"}}
      locals == {k \in DOMAIN clause :
                   /\ \E o \in 1..(k - 1) : clause[o] = "{"
                   /\ clause[k] \notin {"{", "}", "as"}
                   /\ At(clause, k + 1) # "as"}
      named == {<<"named", IF At(clause, k - 1) = "as" THEN clause[k - 2] ELSE clause[k], clause[k]>> :
                  k \in locals}
  IN defaults \cup namespaces \cup named

\* C11, as claimed: the statement that generateImportStatement emits for what
\* extractImports took from an import statement imports from the same module
\* and binds the same local names with the same kinds.
C11_ImportRoundTrip ==
  pc = "emitted" =>
    /\ ModuleOfStatement(fullCode.text) = ModuleOfStatement(code[1].text)
    /\ BindingsOfStatement(fullCode.text) = BindingsOfStatement(code[1].text)

\* C11, the forms that do survive the round trip: every form but a default
\* name combined with a namespace.
C11_RoundTripWithoutDefaultNamespace ==
  (pc = "emitted"
   /\ ~\E b, c \in BindingsOfStatement(code[1].text) : b[1] = "default" /\ c[1] = "namespace")
    => /\ ModuleOfStatement(fullCode.text) = ModuleOfStatement(code[1].text)
       /\ BindingsOfStatement(fullCode.text) = BindingsOfStatement(code[1].text)

\* The names that a file exports, read from its tree.
ExportedNames(content) ==
  LET nodes == NodesOf(content)
      marked == {k \in DOMAIN nodes :
                   nodes[k].node.modifiers \cap {"ExportKeyword", "DefaultKeyword"} # {}}
      declared(k) ==
        IF nodes[k].node.kind = "VariableStatement"
        THEN {NameOf(d) : d \in Range(nodes[k].node.children[1].children)}
        ELSE {NameOf(nodes[k].node)}
      listed == {k \in DOMAIN nodes : nodes[k].node.kind = "ExportSpecifier"}
  IN (UNION {declared(k) : k \in marked}
      \cup {nodes[k].node.children[Len(nodes[k].node.children)].text : k \in listed})
     \ {""}

\* The files of the corpus that export a name, by position.
ExportersOf(id) == {i \in DOMAIN projectFiles : id \in ExportedNames(projectFiles[i].content)}
HasCandidate(id) == ExportersOf(id) # {} \/ id \in DOMAIN CommonMappings

UnresolvedImportStatements ==
  {i \in DOMAIN code :
     code[i].ast.kind = "ImportDeclaration" /\ ModuleOfStatement(code[i].text) \notin installed}

\* C13, as claimed: an import whose module cannot be resolved is emitted as it
\* is in the assembled unit, the miss does not make the result a failure, and
\* the warnings of the result name the unresolved specifier.
C13_UnresolvedImportPassesThrough ==
  pc = "built" =>
    \A i \in UnresolvedImportStatements :
      LET m == ModuleOfStatement(code[i].text)
      IN /\ Includes(fullCode.text, code[i].text)
         /\ ~result.success => m \notin Range(result.error)
         /\ result.success => \E w \in Range(result.warnings) : m \in Range(w)

\* C13, what does hold: the statement is emitted as it is, and a miss on a
\* package specifier (no leading '.' or '/') does not fail the build.
C13_UnresolvedImportEmitted ==
  pc = "built" =>
    \A i \in UnresolvedImportStatements :
      LET m == ModuleOfStatement(code[i].text)
      IN /\ Includes(fullCode.text, code[i].text)
         /\ (~result.success /\ m \notin RelativeSpecifiers) => m \notin Range(result.error)

\* C19, as claimed: every CompilationResult of compile and of
\* compileJSXSnippet has its code when it reports success and its error when
\* it does not, whatever the build answered.
C19_ResultHasCodeOrError ==
  pc \in {"built", "snippet-built"} =>
    /\ result.success => result.code # Undefined
    /\ ~result.success => result.error # Undefined

\* C19, the part that holds: the results of SmartCompiler.compile.
C19_CompileResultHasCodeOrError ==
  pc = "built" =>
    /\ result.success => result.code # Undefined
    /\ ~result.success => (result.error # Undefined /\ result.error # <<>>)

\* The calls of the log, by operation.
AnalyzeCalls == {i \in DOMAIN log : log[i].op = "analyzeDependencies"}
ResolveCalls == {i \in DOMAIN log : log[i].op = "resolveModulePath"}

\* The modules of the import statements of a fragment, in order.
ImportedModules(stmts) ==
  LET statements == SelectSeq(stmts, LAMBDA st : st.ast.kind = "ImportDeclaration")
  IN [k \in DOMAIN statements |-> ModuleOfStatement(statements[k].text)]

\* C14: resolveModulePath returns null for a module that neither resolution
\* finds, and analyzeDependencies then still returns the import, without
\* resolvedPath and without an entry of resolvedModules; every entry of
\* resolvedModules is the resolvedPath of an import of that module.
C14_ResolutionMissIsNotFatal ==
  /\ \A i \in ResolveCalls :
       /\ log[i].returned.kind = "fulfilled"
       /\ (i = 1 /\ log[i].moduleName \notin log[i].disk) => log[i].returned.value = Undefined
       /\ log[i].returned.value # Undefined => log[i].returned.value = ModulePath(log[i].moduleName)
  /\ \A i \in AnalyzeCalls :
       LET ctx == log[i].returned.value
           modules == ImportedModules(log[i].code)
       IN /\ log[i].returned.kind = "fulfilled"
          /\ [k \in DOMAIN ctx.imports |-> ctx.imports[k].module] = modules
          /\ \A k \in DOMAIN ctx.imports :
               /\ (i = 1 /\ modules[k] \notin log[i].disk) => ctx.imports[k].resolvedPath = Undefined
               /\ ctx.imports[k].resolvedPath = Undefined => modules[k] \notin DOMAIN ctx.resolvedModules
          /\ \A m \in DOMAIN ctx.resolvedModules :
               \E k \in DOMAIN ctx.imports :
                 ctx.imports[k].module = m /\ ctx.imports[k].resolvedPath = ctx.resolvedModules[m]

\* C14 witness: an analysis of a fragment with an import that resolves and an
\* import that does not, and a direct call that returned null.
C14_Witness ==
  /\ \E i \in AnalyzeCalls :
       LET ctx == log[i].returned.value
       IN /\ \E k \in DOMAIN ctx.imports : ctx.imports[k].resolvedPath = Undefined
          /\ \E k \in DOMAIN ctx.imports : ctx.imports[k].resolvedPath # Undefined
  /\ \E i \in ResolveCalls : log[i].returned.value = Undefined

\* C15, as claimed: two calls of resolveModulePath with the same module and
\* the same fromFile (or none) on one instance return the same result, a path
\* or null, whatever happened to the disk in between.
C15_ResolveMemoized ==
  \A i, j \in ResolveCalls :
    (i < j /\ CacheKey(log[i].moduleName, log[i].fromFile) = CacheKey(log[j].moduleName, log[j].fromFile))
      => log[j].returned = log[i].returned

\* C15, the part that holds: a path, once returned, is returned again.
C15_ResolvedPathMemoized ==
  \A i, j \in ResolveCalls :
    (/\ i < j
     /\ CacheKey(log[i].moduleName, log[i].fromFile) = CacheKey(log[j].moduleName, log[j].fromFile)
     /\ log[i].returned.value # Undefined)
      => log[j].returned = log[i].returned

\* C17, as claimed: analyzeDependencies on a fragment with a syntax error
\* returns no DependencyContext to its caller.
C17_MalformedFragmentRejected ==
  \A i \in AnalyzeCalls :
    parseDiagnostics(log[i].code) # <<>> => log[i].returned.kind # "fulfilled"

\* C20, as claimed: two calls of analyzeDependencies on one instance with the
\* same fragment and the same file path return equal contexts.
C20_AnalyzerDeterministic ==
  \A i, j \in AnalyzeCalls :
    (i < j /\ log[i].code = log[j].code /\ log[i].fromFile = log[j].fromFile)
      => log[j].returned.value = log[i].returned.value

\* C20, the part that holds: the contexts are equal when the disk is the same
\* at every call from the first of the two to the second.
C20_DeterministicOnUnchangedDisk ==
  \A i, j \in AnalyzeCalls :
    (/\ i < j /\ log[i].code = log[j].code /\ log[i].fromFile = log[j].fromFile
     /\ \A k \in i..j : log[k].disk = log[i].disk)
      => log[j].returned.value = log[i].returned.value

\* Whether the declaration named n is the default export of a file: a
\* statement `export default n;` or the default modifier on the declaration.
IsFileDefault(content, n) ==
  \E v \in Range(NodesOf(content)) :
    \/ v.node.kind = "ExportAssignment" /\ NameOf(v.node) = n
    \/ "DefaultKeyword" \in v.node.modifiers /\ NameOf(v.node) = n

\* C16, as claimed: isDefaultExport of a catalog entry is true exactly when
\* the declaration is the default export of its file, by a separate
\* `export default Name;` or by `export default function/class Name`.
C16_DefaultExportFlag ==
  pc = "detected" =>
    \A k \in DOMAIN components :
      \A f \in Range(projectFiles) :
        f.path = components[k].filePath
          => (components[k].isDefaultExport <=> IsFileDefault(f.content, components[k].name))

\* C16, the part that holds: the flag is true for the declarations that an
\* `export default Name;` statement names, and false for named exports.
C16_DefaultByStatementOnly ==
  pc = "detected" =>
    \A k \in DOMAIN components :
      \A f \in Range(projectFiles) :
        f.path = components[k].filePath
          => (components[k].isDefaultExport
                <=> \E v \in Range(NodesOf(f.content)) :
                      v.node.kind = "ExportAssignment" /\ NameOf(v.node) = components[k].name)

\* C18, as claimed: renderPartial never rejects; a failure at any step gives
\* a result with success = false and an error message.
C18_RenderNeverRejects ==
  pc = "done" =>
    /\ result.kind = "fulfilled"
    /\ ~result.success => (result.error # Undefined /\ result.error # <<>>)

\* C18, the part that holds: once the instance is initialized, every failure
\* of a later step is returned as a result.
C18_RenderNeverRejectsOnceInitialized ==
  (pc = "done" /\ codeContext # Undefined) =>
    /\ result.kind = "fulfilled"
    /\ ~result.success => (result.error # Undefined /\ result.error # <<>>)

\* C21, as claimed: analyzeDependencies leaves the module resolution cache of
\* the instance as it was; on an instance that has only analysed fragments
\* the cache is as constructed.
C21_AnalyzeLeavesCacheUnchanged ==
  (\A i \in DOMAIN log : log[i].op = "analyzeDependencies") => moduleResolutionCache = EmptyMap

\* C21, the part that holds: the analyses add nothing to the cache but the
\* paths of the imports they resolved.
C21_AnalyzeCachesResolvedImportsOnly ==
  (\A i \in DOMAIN log : log[i].op = "analyzeDependencies") =>
    \A key \in DOMAIN moduleResolutionCache :
      /\ moduleResolutionCache[key] = ModulePath(key[1])
      /\ \E i \in AnalyzeCalls :
           \E k \in DOMAIN log[i].returned.value.imports :
             /\ CacheKey(log[i].returned.value.imports[k].module, log[i].fromFile) = key
             /\ log[i].returned.value.imports[k].resolvedPath = moduleResolutionCache[key]

\* The renderings start one at a time in input order, each after the result
\* of the one before is in the map.
BatchInOrder ==
  \A k \in DOMAIN log :
    log[k].op = (IF k % 2 = 1 THEN "renderPartial" ELSE "results.set")
      /\ log[k].index = (k + 1) \div 2

\* The last snippet of the batch that carries a name.
LastNamed(name) ==
  CHOOSE i \in DOMAIN codeSnippets :
    /\ codeSnippets[i].name = name
    /\ \A j \in DOMAIN codeSnippets : codeSnippets[j].name = name => j <= i

\* Two results of renderPartial with the same outcome.
SameOutcome(a, b) ==
  /\ a.success = b.success
  /\ a.html = b.html
  /\ ~a.success => a.error = b.error

\* The returned map holds, for every snippet name, the recorded result of the
\* (last) snippet of that name, and nothing else.
BatchMapComplete ==
  /\ {results[k].key : k \in DOMAIN results} = {codeSnippets[i].name : i \in DOMAIN codeSnippets}
  /\ \A k \in DOMAIN results :
       \E j \in DOMAIN Recorded :
         /\ Recorded[j].index = LastNamed(results[k].key)
         /\ SameOutcome(Recorded[j].returned, results[k].value)

\* C22, as claimed: the snippets are rendered one at a time in input order,
\* no failed snippet stops the batch, and the batch returns a map with one
\* result per snippet name.
C22_BatchRendersEverySnippetInOrder ==
  /\ BatchInOrder
  /\ pc # "batch-rejected"
  /\ pc = "batch-returned" => (Len(Recorded) = Len(codeSnippets) /\ BatchMapComplete)

\* C22, the part that holds: the order, and the map of a batch that returns;
\* a snippet whose result is success = false is followed by the next one.
C22_BatchInOrderWhenReturned ==
  /\ BatchInOrder
  /\ pc = "batch-returned" => (Len(Recorded) = Len(codeSnippets) /\ BatchMapComplete)
  /\ pc = "batch-rejected" =>
       (Len(Recorded) = 0 /\ Len(Started) = 1 /\ codeContext = Undefined)

\* The number of ProjectFiles of the corpus with the path of a disk file, and
\* the patterns whose glob returned the file.
ProjectFilesOf(file) == {k \in DOMAIN projectFiles : projectFiles[k].path = RelativePath(file)}
PatternsMatching(file) == {k \in DOMAIN log : \E m \in DOMAIN log[k] : log[k][m] = file}

\* C24, as claimed: in the corpus that scanProject returns no path appears
\* twice; a file found by the scanner has exactly one ProjectFile if it can
\* be read and none otherwise, and the scan returns.
C24_CorpusPathsUnique ==
  pc = "scanned" =>
    /\ result.kind = "fulfilled"
    /\ \A i, j \in DOMAIN projectFiles :
         projectFiles[i].path = projectFiles[j].path => i = j
    /\ \A file \in installed :
         PatternsMatching(file) # {} =>
           Cardinality(ProjectFilesOf(file)) = (IF file.readable THEN 1 ELSE 0)

\* C24, the part that holds: the corpus has one ProjectFile per match of a
\* readable file, so the paths are unique when no file matches two patterns;
\* an unreadable file is skipped and the scan goes on.
C24_OneProjectFilePerMatch ==
  pc = "scanned" =>
    /\ result.kind = "fulfilled"
    /\ \A file \in installed :
         Cardinality(ProjectFilesOf(file)) =
           (IF file.readable THEN Cardinality(PatternsMatching(file)) ELSE 0)
    /\ \A k \in DOMAIN projectFiles : \E file \in installed : k \in ProjectFilesOf(file)

\* C30, as claimed: with enableLogs the logs of the result of executeCode
\* are the lines that the code handed to the call writes through the
\* console, in order, and no line of an earlier call; without enableLogs
\* they are empty.
C30_LogsHoldConsoleLines ==
  \A i \in DOMAIN log :
    log[i].returned.logs = (IF options.enableLogs THEN ConsoleLines(log[i].code) ELSE <<>>)

\* C30, the part that holds: no result holds a line of an earlier call, and
\* without enableLogs the logs are empty; they are empty with enableLogs too.
C30_LogsAlwaysEmpty ==
  \A i \in DOMAIN log : log[i].returned.logs = <<>> /\ ~log[i].returned.success

\* The renderJSX calls whose compilation has settled.
CompiledCalls == {i \in DOMAIN calls : calls[i].op = "renderJSX" /\ calls[i].compiled.kind = "returned"}

\* C25: when the compilation of renderJSX did not succeed (success = false,
\* or success without code) the call returns success = false with the
\* compiler's error, or 'Compilation failed' when there is none, and nothing
\* is given to the executor; the executor only gets the code of a
\* successful compilation.
C25_FailedCompilationSkipsExecutor ==
  \A i \in CompiledCalls :
    LET compilationResult == calls[i].compiled
    IN /\ (~compilationResult.success \/ compilationResult.code = Undefined) =>
            /\ calls[i].pc = "done"
            /\ calls[i].executed = Undefined
            /\ calls[i].returned.kind = "fulfilled"
            /\ ~calls[i].returned.success
            /\ calls[i].returned.error =
                 (IF compilationResult.success THEN <<"Compilation failed">>
                  ELSE compilationResult.error)
       /\ calls[i].executed # Undefined =>
            /\ compilationResult.success
            /\ calls[i].executed = compilationResult.code

\* C25 witness: one renderJSX returned the error of a failed compilation,
\* another returned 'Compilation failed' for a success without code.
C25_Witness ==
  /\ \E i \in CompiledCalls :
       /\ ~calls[i].compiled.success
       /\ calls[i].pc = "done"
       /\ calls[i].returned.error = <<"The service was stopped">>
  /\ \E i \in CompiledCalls :
       /\ calls[i].compiled.success
       /\ calls[i].compiled.code = Undefined
       /\ calls[i].pc = "done"
       /\ calls[i].returned.error = <<"Compilation failed">>

\* C23, as claimed: the catalog and the code context that the instance holds
\* come from the same scan, whatever calls succeeded or failed, and so do
\* the catalog and the context that a preview server holds.
C23_CatalogAndContextFromSameScan ==
  /\ components = codeContext
  /\ \A s \in DOMAIN servers : servers[s].components = servers[s].codeContext

\* C23, the part that holds: the two are replaced together, and a server is
\* handed both of one scan, as long as no constructor of ComponentDetector
\* threw after the context was assigned.
C23_SameScanUnlessDetectorThrew ==
  (\A k \in DOMAIN log : log[k].op # "ComponentDetector") =>
    /\ components = codeContext
    /\ \A s \in DOMAIN servers : servers[s].components = servers[s].codeContext

\* C27, as claimed: on an instance on which only renderJSX and validateJSX
\* were called and no call failed, the project was scanned at most once and
\* every call compiled against the same code context.
C27_LazyInitializationRunsOnce ==
  (\A i \in DOMAIN calls : calls[i].op \in LazyOps /\ calls[i].returned.kind # "rejected") =>
    /\ Len(ScansStarted) <= 1
    /\ \A i, j \in DOMAIN calls :
         (calls[i].ctx # Null /\ calls[j].ctx # Null) => calls[i].ctx = calls[j].ctx

\* C27, the part that holds: the same, when no call started while another
\* was in progress.
C27_LazyInitializationOnceWhenSequential ==
  (\A i \in DOMAIN calls :
     calls[i].op \in LazyOps /\ calls[i].returned.kind # "rejected" /\ ~calls[i].concurrent) =>
    /\ Len(ScansStarted) <= 1
    /\ \A i, j \in DOMAIN calls :
         (calls[i].ctx # Null /\ calls[j].ctx # Null) => calls[i].ctx = calls[j].ctx

\* C28, as claimed: a server that the instance started and that listens is
\* the one the instance refers to; with no reference, none listens.
C28_OneRunningPreviewServer ==
  \A s \in DOMAIN servers : servers[s].state = "listening" => previewServer = s

\* C28, the part that holds: the same on an instance on which
\* startPreviewServer was called at most once and no call started while
\* another was in progress.
C28_OneServerWhenStartedOnce ==
  (/\ Cardinality({i \in DOMAIN calls : calls[i].op = "startPreviewServer"}) <= 1
   /\ \A i \in DOMAIN calls : ~calls[i].concurrent) =>
    \A s \in DOMAIN servers : servers[s].state = "listening" => previewServer = s

\* The names that a file exports as its default export by
\* `export default function Name` or `export default class Name`.
DefaultExportedNames(content) ==
  {NameOf(v.node) : v \in {w \in Range(NodesOf(content)) :
                             /\ w.node.kind \in {"FunctionDeclaration", "ClassDeclaration"}
                             /\ {"ExportKeyword", "DefaultKeyword"} \subseteq w.node.modifiers}}

\* The suggested imports that come from a project file, by position.
RelativeSuggestions == {k \in DOMAIN suggestedImports : suggestedImports[k].isRelative}

\* The content of the project file of a path.
ContentOf(path) == (CHOOSE f \in Range(projectFiles) : f.path = path).content

\* C26, as claimed: the import suggested from a project file is a default
\* import exactly when the file exports the identifier as its default
\* export, and a named import when it is a named export.
C26_SuggestedSpecifierHasExportKind ==
  pc = "suggested" =>
    \A k \in RelativeSuggestions :
      LET imp == suggestedImports[k]
      IN imp.specifiers[1].isDefault
           <=> imp.specifiers[1].name \in DefaultExportedNames(ContentOf(imp.resolvedPath))

\* C26, the part that holds: every import suggested from a project file is
\* a named import, of a name that the file exports.
C26_SuggestedSpecifierAlwaysNamed ==
  pc = "suggested" =>
    \A k \in RelativeSuggestions :
      LET imp == suggestedImports[k]
      IN /\ ~imp.specifiers[1].isDefault
         /\ imp.specifiers[1].name \in ExportedNames(ContentOf(imp.resolvedPath))

\* The events of the completer's log, by kind; the position of the start of
\* a call.
EventsOf(op) == {k \in DOMAIN log : log[k].op = op}
StartOf(i) == CHOOSE k \in EventsOf("completePartialCode") : log[k].call = i

\* The cache.set events for the key of call i that precede its start with
\* no clearCache in between.
StoresSeenBy(i) ==
  {s \in EventsOf("cache.set") :
     /\ s < StartOf(i)
     /\ log[s].key = log[StartOf(i)].key
     /\ \A c \in EventsOf("clearCache") : ~(s < c /\ c < StartOf(i))}

\* C29, the part that holds: every cache entry is a result parsed from a successful
\* answer of the provider, never a fallback; a call finds its key cached
\* exactly when such a result was stored for the key since the last
\* clearCache before the call, whoever asked for it and whenever; it then
\* returns the stored result without calling the provider, and otherwise
\* calls the provider.
C29_CacheHoldsParsedAnswersOnly ==
  /\ \A key \in DOMAIN completerCache :
       \E s \in EventsOf("cache.set") :
         /\ log[s].key = key
         /\ calls[log[s].call].returned = completerCache[key]
         /\ completerCache[key] # getFallbackCompletion(calls[log[s].call].context)
  /\ \A i \in DOMAIN calls :
       /\ calls[i].cached <=> StoresSeenBy(i) # {}
       /\ calls[i].cached <=> ~\E g \in EventsOf("generateCode") : log[g].call = i
       /\ calls[i].cached =>
            LET last == CHOOSE s \in StoresSeenBy(i) : \A t \in StoresSeenBy(i) : t <= s
            IN calls[i].returned = calls[log[last].call].returned
       /\ (calls[i].pc = "done" /\ calls[i].returned = getFallbackCompletion(calls[i].context)) =>
            ~\E s \in EventsOf("cache.set") : log[s].call = i

\* C29 witness: a call asked the provider, clearCache ran while the answer
\* was awaited, the answer was stored, and a later call of the same key was
\* answered from the cache with that result.
C29_Witness ==
  \E i, j \in DOMAIN calls :
    /\ calls[j].cached
    /\ calls[j].returned = calls[i].returned
    /\ \E s \in EventsOf("cache.set"), c \in EventsOf("clearCache") :
         log[s].call = i /\ StartOf(i) < c /\ c < s /\ s < StartOf(j)

\* C29, as claimed: after clearCache every key calls the provider again; the
\* first call of a key that starts after a clearCache is not answered from
\* the cache.
C29_FirstCallAfterClearAsksProvider ==
  \A i \in DOMAIN calls :
    \A c \in EventsOf("clearCache") :
      (/\ c < StartOf(i)
       /\ \A j \in DOMAIN calls :
            (j # i /\ log[StartOf(j)].key = log[StartOf(i)].key) => ~(c < StartOf(j) /\ StartOf(j) < StartOf(i)))
        => ~calls[i].cached

====
